---------------------------- MODULE Spec2Model ----------------------------
(***************************************************************************)
(* Model of src/dossier_relationship.py: the pipeline that clusters the    *)
(* dossiers of the historical land register by street and house number    *)
(* and determines directed relations between them.                         *)
(*                                                                         *)
(* The dossier DataFrame is the function `dossier` from index labels to    *)
(* rows.  A cell holding None, a string or a list of strings is a tagged   *)
(* value (None, Str(s), List(q)).  A free text (descriptiveNote,           *)
(* outside_match) is the sequence of its tokens: the text is the           *)
(* concatenation of the tokens, digit runs and words are single tokens.    *)
(***************************************************************************)
EXTENDS Integers, Sequences, FiniteSets, TLC

VARIABLES
    pc,             \* the position of main(): which loop is running
    dossier,        \* the DataFrame `dossier`: index label -> row
    rows,           \* the index labels of `dossier`, in table order
    relation,       \* the DataFrame `relation` (origin, source, target)
    relation_red,   \* the DataFrame `relation_red` (source, target)
    street_i,       \* position of `for street in streets`
    numbers_done,   \* the numbers of the current street already iterated
    n_correction,   \* rows of dossier_correction2 with an Additional Address
    corr_i,         \* rows of dossier_correction2 already processed
    d_i,            \* position of the loops over dossier.iterrows()
    lut_cluster,    \* the dict lut_cluster, as the list of its keys
    dossier_type,   \* the table dossier_type: dossierId -> type
    entry,          \* the table project_entry: dossierId -> years
    groups_done,    \* cluster ids already visited by `for name, group`
    closure         \* n, n_connected, dossier_index, new_number of one number

vars == <<pc, dossier, rows, relation, relation_red, street_i, numbers_done,
          n_correction, corr_i, d_i, lut_cluster, dossier_type,
          entry, groups_done, closure>>

(***************************************************************************)
(* Bounds of the model.                                                    *)
(***************************************************************************)
MaxDossier == 3
MaxCorrection == 2

(***************************************************************************)
(* Cell values.                                                            *)
(***************************************************************************)
None == [k |-> "none", v |-> <<>>]
Str(s) == [k |-> "str", v |-> <<s>>]
List(q) == [k |-> "list", v |-> q]
isna(x) == x.k = "none"
\* `[x]` for a string cell, the list itself for a list cell (lines 327-329).
AsList(x) == x.v

Range(q) == {q[i] : i \in 1 .. Len(q)}
InSeq(x, q) == \E i \in 1 .. Len(q) : q[i] = x
\* list(set(S)): the order of a Python set of strings is not fixed.
Perms(S) == {f \in [1 .. Cardinality(S) -> S] :
                \A i, j \in 1 .. Cardinality(S) : f[i] = f[j] => i = j}

(***************************************************************************)
(* Tokens of the free texts.                                               *)
(***************************************************************************)
Streets == {"Eisengasse", "Petersgraben"}
HouseNumbers == {"10", "12", "14"}
SlashNumbers == {"995"}
Years == {"1700", "1701"}
NumTokens == HouseNumbers \cup SlashNumbers \cup Years
IsNum(t) == t \in NumTokens

(***************************************************************************)
(* Per-street clusters (lines 324-372).                                    *)
(***************************************************************************)
\* dossier['street'].unique(): the streets in order of first appearance.
RECURSIVE Unique(_, _)
Unique(q, seen) ==
    IF q = <<>> THEN <<>>
    ELSE IF Head(q) \in seen THEN Unique(Tail(q), seen)
         ELSE <<Head(q)>> \o Unique(Tail(q), seen \cup {Head(q)})

streets == Unique([i \in 1 .. Len(rows) |-> dossier[rows[i]].street], {})

\* d = dossier[dossier['street'] == street].dropna(subset=['numbers']);
\* its numbers are read through AsList.
StreetRows(street) ==
    LET Test(r) == dossier[r].street = street /\ ~isna(dossier[r].numbers)
    IN SelectSeq(rows, Test)

\* numbers_all as a set (line 336).
StreetNumbers(street) ==
    UNION {Range(AsList(dossier[r].numbers)) : r \in Range(StreetRows(street))}

\* d[d['numbers'].apply(lambda x: n in x)], as index labels.
RowsWith(d, n) ==
    LET Test(r) == InSeq(n, AsList(dossier[r].numbers)) IN SelectSeq(d, Test)

\* new_number is set for every number of a new row, known or not.
RECURSIVE ForNumbersAlwaysNew(_, _, _)
ForNumbersAlwaysNew(nums, n_connected, new_number) ==
    IF nums = <<>> THEN [n_connected |-> n_connected, new_number |-> new_number]
    ELSE IF InSeq(Head(nums), n_connected)
         THEN ForNumbersAlwaysNew(Tail(nums), n_connected, TRUE)
         ELSE ForNumbersAlwaysNew(Tail(nums), Append(n_connected, Head(nums)),
                                  TRUE)

\* for j in r[1]['numbers'] (lines 365-368).
RECURSIVE ForNumbers(_, _, _)
ForNumbers(nums, n_connected, new_number) ==
    IF nums = <<>> THEN [n_connected |-> n_connected, new_number |-> new_number]
    ELSE IF InSeq(Head(nums), n_connected)
         THEN ForNumbers(Tail(nums), n_connected, new_number)
         ELSE ForNumbers(Tail(nums), Append(n_connected, Head(nums)), TRUE)

\* for r in new_row.iterrows() (lines 358-368).
RECURSIVE ForNewRow(_, _, _, _)
ForNewRow(new_row, n_connected, dossier_index, new_number) ==
    IF new_row = <<>>
    THEN [n_connected |-> n_connected, dossier_index |-> dossier_index,
          new_number |-> new_number]
    ELSE LET r == Head(new_row) IN
         IF InSeq(r, dossier_index)
         THEN ForNewRow(Tail(new_row), n_connected, dossier_index, new_number)
         ELSE LET f == ForNumbers(AsList(dossier[r].numbers), n_connected,
                                  new_number)
              IN ForNewRow(Tail(new_row), f.n_connected,
                           Append(dossier_index, r), f.new_number)

\* Only the first number of n_connected is looked up.
ForConnectedFirstOnly(d, i, n_connected, dossier_index, new_number) ==
    IF i > 1 \/ n_connected = <<>>
    THEN [n_connected |-> n_connected, dossier_index |-> dossier_index,
          new_number |-> FALSE]
    ELSE LET f == ForNewRow(RowsWith(d, n_connected[1]), n_connected,
                            dossier_index, FALSE)
         IN [n_connected |-> f.n_connected, dossier_index |-> f.dossier_index,
             new_number |-> FALSE]

\* for i in n_connected (lines 354-368); the list grows while it is iterated.
RECURSIVE ForConnected(_, _, _, _, _)
ForConnected(d, i, n_connected, dossier_index, new_number) ==
    IF i > Len(n_connected)
    THEN [n_connected |-> n_connected, dossier_index |-> dossier_index,
          new_number |-> new_number]
    ELSE LET f == ForNewRow(RowsWith(d, n_connected[i]), n_connected,
                            dossier_index, new_number)
         IN ForConnected(d, i + 1, f.n_connected, f.dossier_index,
                         f.new_number)

\* while new_number (lines 352-368).
RECURSIVE WhileNewNumber(_, _, _)
WhileNewNumber(d, n_connected, dossier_index) ==
    LET f == ForConnected(d, 1, n_connected, dossier_index, FALSE)
    IN IF f.new_number
       THEN WhileNewNumber(d, f.n_connected, f.dossier_index)
       ELSE f.dossier_index

\* The set n_connected of the dossiers holding number n (lines 346-350).
SeedNumbers(d, n) ==
    UNION {Range(AsList(dossier[r].numbers)) : r \in Range(RowsWith(d, n))}

\* The closure left out: only the dossiers that hold number n.
ConnectedIndexSeedOnly(d, n, n_connected) == RowsWith(d, n)

\* dossier_index after the closure for number n; dossier_n holds the same
\* rows in the same order.  n_connected is list(set(...)) in some order.
ConnectedIndex(d, n, n_connected) ==
    IF Len(n_connected) > 1
    THEN WhileNewNumber(d, n_connected, RowsWith(d, n))
    ELSE RowsWith(d, n)

Ids(index) == [i \in 1 .. Len(index) |-> dossier[index[i]].dossierId]

(***************************************************************************)
(* Triple detection (lines 374-424).                                       *)
(***************************************************************************)
\* re.match(r'^(?P<prefix>(Bis|Seit)) (?P<year_change>[0-9]{4}).*$', note),
\* guarded by `if row[1]['descriptiveNote']`.  A digit run has at most four
\* digits here, so year_change is the whole token.
PrefixMatch(note) ==
    IF /\ Len(note) >= 3
       /\ note[1] \in {"Bis", "Seit"}
       /\ note[2] = " "
       /\ IsNum(note[3])
       /\ Len(note[3]) >= 4
    THEN [prefix |-> Str(note[1]), year_change |-> Str(note[3])]
    ELSE [prefix |-> None, year_change |-> None]

\* The condition of lines 396-399 on dossier_n.
ClearCase(index) ==
    /\ Len(index) = 3
    /\ \A i \in 1 .. Len(index) :
          LET m == PrefixMatch(dossier[index[i]].descriptiveNote)
          IN ~isna(m.prefix) /\ ~isna(m.year_change)
    /\ Cardinality({PrefixMatch(dossier[index[i]].descriptiveNote).year_change :
                       i \in 1 .. Len(index)}) = 1

WithPrefix(index, prefix) ==
    LET Test(r) == PrefixMatch(dossier[r].descriptiveNote).prefix = Str(prefix)
    IN Ids(SelectSeq(index, Test))

Edge(origin, source, target) ==
    [origin |-> origin, source_dossierid |-> source, target_dossierid |-> target]

\* Only the first of the two rows of new_relation.
TripleRelationFirstRow(index) ==
    LET id_to == WithPrefix(index, "Bis")
        id_from == WithPrefix(index, "Seit")
    IN IF Len(id_to) = 2
       THEN << Edge(<<id_to[1], id_to[2], id_from[1]>>, id_to[1], id_from[1]) >>
       ELSE IF Len(id_from) = 2
       THEN << Edge(<<id_to[1], id_from[1], id_from[2]>>, id_to[1], id_from[1]) >>
       ELSE <<>>

\* new_relation of lines 400-422: the rows added to `relation`.
TripleRelation(index) ==
    LET id_to == WithPrefix(index, "Bis")
        id_from == WithPrefix(index, "Seit")
    IN IF Len(id_to) = 2
       THEN << Edge(<<id_to[1], id_to[2], id_from[1]>>, id_to[1], id_from[1]),
               Edge(<<id_to[1], id_to[2], id_from[1]>>, id_to[2], id_from[1]) >>
       ELSE IF Len(id_from) = 2
       THEN << Edge(<<id_to[1], id_from[1], id_from[2]>>, id_to[1], id_from[1]),
               Edge(<<id_to[1], id_from[1], id_from[2]>>, id_to[1], id_from[2]) >>
       ELSE <<>>

(***************************************************************************)
(* Patterns on the descriptive note (lines 489-536, 625-672).  A statement *)
(* keyword ("Nachher siehe", "Vorher siehe") is one token.                 *)
(***************************************************************************)
Words == {"Bis", "Seit", "ganz", "vereinigt", "getrennt", "und", "Haus",
          "Nachher siehe", "Vorher siehe"}
\* House numbers with an alphabetic character, as "11a".
LetterNumbers == {"11a"}

At(q, i) == IF i \in 1 .. Len(q) THEN q[i] ELSE ""

\* (\/ ?[0-9]+)? at position i: the position after it.
OptSlash(q, i) ==
    IF At(q, i) = "/" /\ IsNum(At(q, i + 1)) THEN i + 2
    ELSE IF At(q, i) = "/" /\ At(q, i + 1) = " " /\ IsNum(At(q, i + 2))
    THEN i + 3
    ELSE i

\* Tokens of class characters with a final period, as the "u." of
\* "Vorher siehe 31 u. 33 getrennt" (line 707).
PeriodWords == {"u."}

\* (, | und | u. ) at position i: the position after it, 0 when it does not
\* match.
Separator(q, i) ==
    IF At(q, i) = "," /\ At(q, i + 1) = " " THEN i + 2
    ELSE IF At(q, i) = " " /\ At(q, i + 1) = "und" /\ At(q, i + 2) = " "
    THEN i + 3
    ELSE IF At(q, i) = " " /\ At(q, i + 1) \in PeriodWords
            /\ At(q, i + 2) = " "
    THEN i + 3
    ELSE 0

NoMatch == [ok |-> FALSE, start |-> 0, end |-> 0, numbers |-> <<>>]

\* k further groups `(\/ ?[0-9]+)?(, | und )(?P<number>[0-9]+)` after the
\* number that ends at position e.
RECURSIVE MoreNumbers(_, _, _, _, _)
MoreNumbers(q, start, e, k, numbers) ==
    IF k = 0
    THEN [ok |-> TRUE, start |-> start, end |-> e, numbers |-> numbers]
    ELSE LET s == Separator(q, OptSlash(q, e + 1)) IN
         IF s # 0 /\ IsNum(At(q, s))
         THEN MoreNumbers(q, start, s, k - 1, Append(numbers, q[s]))
         ELSE NoMatch

\* The pattern with k numbers (lines 491-508), matched at position i.
StatementAt(q, keyword, i, k) ==
    IF At(q, i) = keyword /\ At(q, i + 1) = " " /\ IsNum(At(q, i + 2))
    THEN MoreNumbers(q, i, i + 2, k - 1, <<q[i + 2]>>)
    ELSE NoMatch

\* re.search: the leftmost match.
RECURSIVE SearchStatement(_, _, _, _)
SearchStatement(q, keyword, i, k) ==
    IF i > Len(q) THEN NoMatch
    ELSE IF StatementAt(q, keyword, i, k).ok THEN StatementAt(q, keyword, i, k)
    ELSE SearchStatement(q, keyword, i + 1, k)

\* after_match / before_match: three numbers, else two, else one.
StatementMatch(q, keyword) ==
    IF SearchStatement(q, keyword, 1, 3).ok
    THEN SearchStatement(q, keyword, 1, 3)
    ELSE IF SearchStatement(q, keyword, 1, 2).ok
    THEN SearchStatement(q, keyword, 1, 2)
    ELSE SearchStatement(q, keyword, 1, 1)

\* The class [A-Za-z0-9\/\s] of line 523, with the hyphen of line 657.
ClassToken(t, hyphen) ==
    \/ IsNum(t)
    \/ t \in Words
    \/ t \in {"/", " "}
    \/ (hyphen /\ t = "-")

RECURSIVE RunEnd(_, _, _)
RunEnd(q, i, hyphen) ==
    IF i <= Len(q) /\ ClassToken(q[i], hyphen) THEN RunEnd(q, i + 1, hyphen)
    ELSE i

\* note_red (lines 522-523, 656-658): keyword, a run of the class, a period;
\* the period is a token, or the end of a token as "u.".
RECURSIVE NoteRed(_, _, _, _)
NoteRed(q, keyword, i, hyphen) ==
    IF i > Len(q) THEN <<>>
    ELSE IF /\ q[i] = keyword
            /\ At(q, i + 1) = " "
            /\ \/ /\ RunEnd(q, i + 2, hyphen) > i + 2
                  /\ At(q, RunEnd(q, i + 2, hyphen)) = "."
               \/ At(q, RunEnd(q, i + 2, hyphen)) \in PeriodWords
    THEN SubSeq(q, i, RunEnd(q, i + 2, hyphen))
    ELSE NoteRed(q, keyword, i + 1, hyphen)

\* re.findall(r'\/ ?(?P<number>\d+)', ...) (lines 525, 660).
RECURSIVE FindSlashNumbers(_, _)
FindSlashNumbers(q, i) ==
    IF i > Len(q) THEN <<>>
    ELSE IF OptSlash(q, i) # i
    THEN <<q[OptSlash(q, i) - 1]>> \o FindSlashNumbers(q, OptSlash(q, i))
    ELSE FindSlashNumbers(q, i + 1)

\* Lines 527-531: the candidates of at most two digits not yet captured.
RECURSIVE AppendCandidates(_, _)
AppendCandidates(numbers, number_candidate) ==
    IF number_candidate = <<>> THEN numbers
    ELSE IF Len(Head(number_candidate)) <= 2
            /\ ~InSeq(Head(number_candidate), numbers)
    THEN AppendCandidates(Append(numbers, Head(number_candidate)),
                          Tail(number_candidate))
    ELSE AppendCandidates(numbers, Tail(number_candidate))

\* number_following / number_previous (lines 510-531, 644-666).
CapturedNumbers(q, keyword, hyphen) ==
    AppendCandidates(StatementMatch(q, keyword).numbers,
                     FindSlashNumbers(NoteRed(q, keyword, 1, hyphen), 1))

\* The statement alone, without the qualifier after it.
UnitedAtGroupOnly(q, i, group) ==
    IF i + Len(group) - 1 <= Len(q) /\ SubSeq(q, i, i + Len(group) - 1) = group
    THEN i + Len(group) - 1
    ELSE 0

\* group + r'(\/ ?[0-9]+)?,? vereinigt' at position i: the position of its
\* last token, 0 when it does not match.
UnitedAt(q, i, group) ==
    IF i + Len(group) - 1 <= Len(q) /\ SubSeq(q, i, i + Len(group) - 1) = group
    THEN LET j == OptSlash(q, i + Len(group))
             c == IF At(q, j) = "," THEN j + 1 ELSE j
         IN IF At(q, c) = " " /\ At(q, c + 1) = "vereinigt" THEN c + 1 ELSE 0
    ELSE 0

\* The text of the match at position i, as a pattern: its last token.
GroupAt(q, i, group) ==
    IF i + Len(group) - 1 <= Len(q) /\ SubSeq(q, i, i + Len(group) - 1) = group
    THEN i + Len(group) - 1
    ELSE 0

PatternAt(q, i, group, united) ==
    IF united THEN UnitedAt(q, i, group) ELSE GroupAt(q, i, group)

\* match_combined (lines 535-536, 670-672).
RECURSIVE MatchCombined(_, _, _)
MatchCombined(q, i, group) ==
    IF i > Len(q) THEN FALSE
    ELSE UnitedAt(q, i, group) # 0 \/ MatchCombined(q, i + 1, group)

\* re.sub(pattern, '', text): every match removed.
RECURSIVE Sub(_, _, _, _)
Sub(q, i, group, united) ==
    IF i > Len(q) THEN <<>>
    ELSE IF PatternAt(q, i, group, united) # 0
    THEN Sub(q, PatternAt(q, i, group, united) + 1, group, united)
    ELSE <<q[i]>> \o Sub(q, i + 1, group, united)

\* The pattern of lines 765-766 from position i on: Bis, Seit, ganz,
\* vereinigt, getrennt, a year, "/" and three or four digits, ". ,", "[...]".
RECURSIVE Boilerplate(_, _)
Boilerplate(q, i) ==
    IF i > Len(q) THEN TRUE
    ELSE IF q[i] \in {"Bis", "Seit", "ganz", "vereinigt", "getrennt",
                      ".", ",", " ", "[...]"}
    THEN Boilerplate(q, i + 1)
    ELSE IF IsNum(q[i]) /\ Len(q[i]) = 4 THEN Boilerplate(q, i + 1)
    ELSE IF q[i] = "/" /\ IsNum(At(q, i + 1)) /\ Len(At(q, i + 1)) \in {3, 4}
    THEN Boilerplate(q, i + 2)
    ELSE FALSE

(***************************************************************************)
(* Positions of main().                                                    *)
(***************************************************************************)
\* The first street at or after position i that has a number to iterate:
\* `for n in numbers` does nothing for a street without numbers.
RECURSIVE NextStreet(_)
NextStreet(i) ==
    IF i > Len(streets) THEN 0
    ELSE IF StreetNumbers(streets[i]) # {} THEN i
    ELSE NextStreet(i + 1)

\* What follows `for street in streets`.
AfterCluster == IF n_correction > 0 THEN "address" ELSE "note"

\* No number of a street is being processed.
Idle == [n |-> "", n_connected |-> <<>>, dossier_index |-> <<>>,
         new_number |-> FALSE]

\* The end of `for n in numbers` for number n with its dossier_index: the
\* cluster is written and the triple is detected (lines 369-424).
WriteCluster(n, dossier_index) ==
    LET street == streets[street_i]
        clear == ClearCase(dossier_index)
        last == numbers_done \cup {n} = StreetNumbers(street)
        nxt == NextStreet(street_i + 1)
    IN /\ dossier' =
            [r \in DOMAIN dossier |->
               IF InSeq(r, dossier_index)
               THEN [dossier[r] EXCEPT
                       !.connected_dossier =
                           IF Len(dossier_index) > 1
                           THEN Ids(dossier_index) ELSE @,
                       !.note =
                           IF clear
                           THEN Append(@, "Relation found on triple. ")
                           ELSE @]
               ELSE dossier[r]]
       /\ relation' =
            IF clear THEN relation \o TripleRelation(dossier_index)
            ELSE relation
       /\ numbers_done' = IF last THEN {} ELSE numbers_done \cup {n}
       /\ street_i' = IF last THEN nxt ELSE street_i
       /\ pc' = IF last /\ nxt = 0 THEN AfterCluster ELSE "cluster"

\* One pass of `for n in numbers` (lines 339-424), for any n not yet taken:
\* numbers = list(set(numbers_all)) has no fixed order.
ClusterNumber ==
    /\ pc = "cluster"
    /\ LET d == StreetRows(streets[street_i])
       IN \E n \in StreetNumbers(streets[street_i]) \ numbers_done :
          \E n_connected \in Perms(SeedNumbers(d, n)) :
             WriteCluster(n, ConnectedIndex(d, n, n_connected))
    /\ UNCHANGED <<rows, relation_red, n_correction, corr_i, d_i,
                   lut_cluster, dossier_type, entry, groups_done, closure>>

\* The same loop body in the steps of `while new_number`: lines 340-350,
SeedNumber ==
    /\ pc = "cluster"
    /\ LET d == StreetRows(streets[street_i])
       IN \E n \in StreetNumbers(streets[street_i]) \ numbers_done :
          \E n_connected \in Perms(SeedNumbers(d, n)) :
             closure' = [n |-> n, n_connected |-> n_connected,
                         dossier_index |-> RowsWith(d, n), new_number |-> TRUE]
    /\ pc' = "while"
    /\ UNCHANGED <<dossier, rows, relation, relation_red, street_i,
                   numbers_done, n_correction, corr_i, d_i, lut_cluster,
                   dossier_type, entry, groups_done>>

\* one pass of the while loop (lines 352-368),
WhilePass ==
    /\ pc = "while"
    /\ Len(closure.n_connected) > 1
    /\ closure.new_number
    /\ LET f == ForConnected(StreetRows(streets[street_i]), 1,
                             closure.n_connected, closure.dossier_index, FALSE)
       IN closure' = [closure EXCEPT !.n_connected = f.n_connected,
                                     !.dossier_index = f.dossier_index,
                                     !.new_number = f.new_number]
    /\ UNCHANGED <<pc, dossier, rows, relation, relation_red, street_i,
                   numbers_done, n_correction, corr_i, d_i, lut_cluster,
                   dossier_type, entry, groups_done>>

\* and the rest of the body once the loop is left (lines 369-424).
CloseNumber ==
    /\ pc = "while"
    /\ ~(Len(closure.n_connected) > 1 /\ closure.new_number)
    /\ WriteCluster(closure.n, closure.dossier_index)
    /\ closure' = Idle
    /\ UNCHANGED <<rows, relation_red, n_correction, corr_i, d_i,
                   lut_cluster, dossier_type, entry, groups_done>>

(***************************************************************************)
(* Additional addresses (lines 426-470).                                   *)
(***************************************************************************)
\* An address is <<street, " ", number>> when the pattern of lines 432-435
\* matches it.
AddressMatch(address) ==
    /\ Len(address) = 3
    /\ address[1] \in Streets
    /\ address[2] = " "
    /\ IsNum(address[3])

\* The addresses a row may hold: one per street and number of the merged
\* streets, and one the pattern does not match.
Addresses == {<<s, " ", "10">> : s \in Streets} \cup {<<"Eisengasse">>}

\* dossier[(street == street_match) & (numbers == number_match)]
DossierMatch(street_match, number_match) ==
    LET Test(r) == /\ dossier[r].street = street_match
                   /\ dossier[r].numbers = Str(number_match)
    IN SelectSeq(rows, Test)

RowsOfId(dossier_id) ==
    LET Test(r) == dossier[r].dossierId = dossier_id IN SelectSeq(rows, Test)

\* The cluster of the matched dossier left out of the union.
ClusterUnionWithoutMatch(dossier_id, dossier_match) ==
    Range(dossier[RowsOfId(dossier_id)[1]].connected_dossier)
        \cup {dossier_id, dossier[dossier_match[1]].dossierId}

\* The cluster of the row's own dossier left out of the union.
ClusterUnionWithoutOwn(dossier_id, dossier_match) ==
    Range(dossier[dossier_match[1]].connected_dossier)
        \cup {dossier_id, dossier[dossier_match[1]].dossierId}

\* The members of dossier_cluster before list(set(...)) (lines 448-450).
ClusterUnion(dossier_id, dossier_match) ==
    Range(dossier[RowsOfId(dossier_id)[1]].connected_dossier)
        \cup Range(dossier[dossier_match[1]].connected_dossier)
        \cup {dossier_id, dossier[dossier_match[1]].dossierId}

\* One address of one row of dossier_correction2 (lines 429-470).  The row is
\* read here: any dossierId, also one that is in no row of `dossier`.
AdditionalAddress ==
    /\ pc = "address"
    /\ \E dossier_id \in 1 .. MaxDossier + 1, address \in Addresses :
          LET dossier_match ==
                  IF AddressMatch(address)
                  THEN DossierMatch(address[1], address[3]) ELSE <<>>
              last == corr_i + 1 = n_correction
          IN /\ corr_i' = corr_i + 1
             /\ IF Len(dossier_match) > 0 /\ RowsOfId(dossier_id) = <<>>
                THEN \* dossier_connected.values[0] raises IndexError.
                     /\ pc' = "crashed"
                     /\ dossier' = dossier
                ELSE IF Len(dossier_match) > 0
                THEN \E dossier_cluster \in
                            Perms(ClusterUnion(dossier_id, dossier_match)) :
                        /\ dossier' =
                             [r \in DOMAIN dossier |->
                                IF InSeq(dossier[r].dossierId, dossier_cluster)
                                THEN [dossier[r] EXCEPT
                                        !.connected_dossier = dossier_cluster,
                                        !.note = Append(@,
                                          "Cluster enlarged based on additional address. ")]
                                ELSE dossier[r]]
                        /\ pc' = IF last THEN "note" ELSE pc
                ELSE /\ dossier' = dossier
                     /\ pc' = IF last THEN "note" ELSE pc
    /\ UNCHANGED <<rows, relation, relation_red, street_i, numbers_done,
                   n_correction, d_i, lut_cluster, dossier_type, entry,
                   groups_done, closure>>

(***************************************************************************)
(* Relations from the descriptive note (lines 472-777).                    *)
(***************************************************************************)
\* dossier[dossier['street'] == d[1]['street']]
DossierStreet(r) ==
    LET Test(x) == dossier[x].street = dossier[r].street
    IN SelectSeq(rows, Test)

\* list `a` is one of itertools.permutations(b, Len(a)).
IsSelectionOf(a, b) ==
    /\ Len(a) <= Len(b)
    /\ \E f \in [1 .. Len(a) -> 1 .. Len(b)] :
          /\ \A i, j \in 1 .. Len(a) : f[i] = f[j] => i = j
          /\ \A i \in 1 .. Len(a) : a[i] = b[f[i]]

\* Only the dossier itself is taken out.
DropSelfOnly(q, r) ==
    LET Test(x) == x # r IN SelectSeq(q, Test)

\* Only the part-of dossiers are taken out.
DropPartOfOnly(q, r) ==
    LET Test(x) == isna(dossier[x].number_partof) IN SelectSeq(q, Test)

\* Lines 546-550: without the dossier itself and without part-of dossiers.
DropSelfAndPartOf(q, r) ==
    LET Test(x) == x # r /\ isna(dossier[x].number_partof)
    IN SelectSeq(q, Test)

\* The part-of dossiers stay among the candidates of the united numbers.
UnitedCandidatesWithPartOf(r, numbers) ==
    LET Test(x) == /\ dossier[x].numbers.k = "list"
                   /\ Len(dossier[x].numbers.v) = Len(numbers)
                   /\ IsSelectionOf(dossier[x].numbers.v, numbers)
    IN DropSelfOnly(SelectSeq(DossierStreet(r), Test), r)

\* street_next of lines 540-550: numbers is a permutation of the captured
\* numbers (a list cell equal to one of the permutation lists).
UnitedCandidates(r, numbers) ==
    LET Test(x) == /\ dossier[x].numbers.k = "list"
                   /\ Len(dossier[x].numbers.v) = Len(numbers)
                   /\ IsSelectionOf(dossier[x].numbers.v, numbers)
    IN DropSelfAndPartOf(SelectSeq(DossierStreet(r), Test), r)

\* street_next of lines 591-598: numbers is the string n.
NumberCandidates(r, n) ==
    LET Test(x) == dossier[x].numbers = Str(n)
    IN DropSelfAndPartOf(SelectSeq(DossierStreet(r), Test), r)

\* Only a list in the order of the captured numbers counts as combined.
DossierCombinedSameOrder(r, numbers) ==
    \E x \in Range(DossierStreet(r)) :
        /\ dossier[x].dossierId # dossier[r].dossierId
        /\ dossier[x].numbers = List(numbers)
        /\ Len(numbers) > 1

\* dossier_combined of lines 575-587: another dossier of the street holds a
\* list of two or more of the captured numbers.
DossierCombined(r, numbers) ==
    \E x \in Range(DossierStreet(r)) :
        /\ dossier[x].dossierId # dossier[r].dossierId
        /\ dossier[x].numbers.k = "list"
        /\ Len(dossier[x].numbers.v) > 1
        /\ IsSelectionOf(dossier[x].numbers.v, numbers)

\* new_relation of lines 552-557 (following) and 688-693 (previous).
DirectedEdge(following, id, sibling) ==
    IF following THEN Edge(<<id>>, id, sibling) ELSE Edge(<<id>>, sibling, id)

\* Only the first captured number is looked up.
ForCapturedFirstOnly(r, following, group, numbers, acc) ==
    IF numbers = <<>> THEN acc
    ELSE LET street_next == NumberCandidates(r, Head(numbers)) IN
         IF Len(street_next) = 1
         THEN [acc EXCEPT
                 !.relation = Append(@, DirectedEdge(following,
                                 dossier[r].dossierId,
                                 dossier[street_next[1]].dossierId))]
         ELSE acc

\* for n in number_following / number_previous (lines 590-622, 726-760).
\* acc holds the rows added to `relation` and the cells of the dossier.
RECURSIVE ForCaptured(_, _, _, _, _)
ForCaptured(r, following, group, numbers, acc) ==
    IF numbers = <<>> THEN acc
    ELSE LET street_next == NumberCandidates(r, Head(numbers)) IN
         ForCaptured(r, following, group, Tail(numbers),
            IF Len(street_next) = 1
            THEN [acc EXCEPT
                    !.relation = Append(@, DirectedEdge(following,
                                    dossier[r].dossierId,
                                    dossier[street_next[1]].dossierId)),
                    !.outside_match = Sub(@, 1, group, FALSE),
                    !.note = Append(@, IF following
                                       THEN "Relation found on following. "
                                       ELSE "Relation found on before. ")]
            ELSE [acc EXCEPT
                    !.note_postprocessing =
                        Append(@, IF following
                                  THEN "No following relation found. "
                                  ELSE "No before relation found. ")])

\* One direction of the search (lines 490-622 and 624-760) on the text
\* `note` of dossier r.
Statement(r, note, acc, keyword, hyphen, following) ==
    LET m == StatementMatch(note, keyword)
        group == SubSeq(note, m.start, m.end)
        numbers == CapturedNumbers(note, keyword, hyphen)
    IN IF ~m.ok THEN acc
       ELSE IF MatchCombined(note, 1, group)
       THEN LET street_next == UnitedCandidates(r, numbers) IN
            IF Len(street_next) = 1
            THEN [acc EXCEPT
                    !.relation = Append(@, DirectedEdge(following,
                                    dossier[r].dossierId,
                                    dossier[street_next[1]].dossierId)),
                    !.outside_match = Sub(@, 1, group, TRUE),
                    !.note = Append(@, IF following
                                       THEN "Relation found on following united. "
                                       ELSE "Relation found on before united. ")]
            ELSE acc
       ELSE IF DossierCombined(r, numbers) THEN acc
       ELSE ForCaptured(r, following, group, numbers, acc)

\* Search for following dossiers (lines 490-622).
Following(r, note, acc) == Statement(r, note, acc, "Nachher siehe", FALSE, TRUE)

\* Search for previous dossiers (lines 624-760).
Previous(r, note, acc) == Statement(r, note, acc, "Vorher siehe", TRUE, FALSE)

\* The remainder is looked at only for a dossier with an entry in `note`.
PostprocessingOnlyWhenNoted(acc) ==
    IF acc.outside_match # <<>> /\ acc.note # <<>>
    THEN IF Boilerplate(acc.outside_match, 1)
         THEN [acc EXCEPT !.outside_match = <<>>]
         ELSE [acc EXCEPT !.note_postprocessing = Append(@,
                 "Not (all) content of descriptiveNote automatically processed. ")]
    ELSE acc

\* Lines 762-777: the analysis of outside_match.
Postprocessing(acc) ==
    LET cleared == IF /\ acc.outside_match # <<>>
                      /\ acc.note # <<>>
                      /\ Boilerplate(acc.outside_match, 1)
                   THEN [acc EXCEPT !.outside_match = <<>>]
                   ELSE acc
    IN IF cleared.outside_match # <<>>
       THEN [cleared EXCEPT !.note_postprocessing = Append(@,
               "Not (all) content of descriptiveNote automatically processed. ")]
       ELSE cleared

\* any(re.search(r'[A-Za-z]', s) for s in numbers), guarded by `if numbers`.
LetterInNumbers(numbers) ==
    \E i \in 1 .. Len(numbers.v) : numbers.v[i] \in LetterNumbers

\* The body of `for d in dossier.iterrows()` (lines 474-777) for row r.
ExtractRow(r) ==
    LET note == dossier[r].outside_match
        acc == [relation |-> <<>>,
                outside_match |-> dossier[r].outside_match,
                note |-> dossier[r].note,
                note_postprocessing |-> dossier[r].note_postprocessing]
    IN IF note = <<>> THEN acc
       ELSE IF LetterInNumbers(dossier[r].numbers)
       THEN [acc EXCEPT !.note_postprocessing = Append(@,
               "Not (all) content of descriptiveNote automatically processed. ")]
       ELSE Postprocessing(Previous(r, note, Following(r, note, acc)))

NoteExtract ==
    /\ pc = "note"
    /\ LET r == rows[d_i]
           acc == ExtractRow(r)
       IN /\ dossier' = [dossier EXCEPT
                           ![r].outside_match = acc.outside_match,
                           ![r].note = acc.note,
                           ![r].note_postprocessing = acc.note_postprocessing]
          /\ relation' = relation \o acc.relation
    /\ d_i' = IF d_i = Len(rows) THEN 1 ELSE d_i + 1
    /\ pc' = IF d_i = Len(rows) THEN "dedup" ELSE pc
    /\ UNCHANGED <<rows, relation_red, street_i, numbers_done, n_correction,
                   corr_i, lut_cluster, dossier_type, entry,
                   groups_done, closure>>

(***************************************************************************)
(* Duplicated relations (lines 779-781).                                   *)
(***************************************************************************)
Pair(source, target) ==
    [source_dossierid |-> source, target_dossierid |-> target]

\* drop_duplicates(): the first row of each (source, target) is kept.
RECURSIVE DropDuplicatesOf(_, _)
DropDuplicatesOf(q, seen) ==
    IF q = <<>> THEN <<>>
    ELSE IF Head(q) \in seen THEN DropDuplicatesOf(Tail(q), seen)
         ELSE <<Head(q)>> \o DropDuplicatesOf(Tail(q), seen \cup {Head(q)})

DropDuplicates ==
    /\ pc = "dedup"
    /\ relation_red' =
         DropDuplicatesOf([i \in 1 .. Len(relation) |->
                             Pair(relation[i].source_dossierid,
                                  relation[i].target_dossierid)], {})
    /\ pc' = "cluster_id"
    /\ UNCHANGED <<dossier, rows, relation, street_i, numbers_done,
                   n_correction, corr_i, d_i, lut_cluster,
                   dossier_type, entry, groups_done, closure>>

(***************************************************************************)
(* Cluster id, size and number of relations (lines 783-812).               *)
(***************************************************************************)
\* Only the rows touching the first member of the cluster are counted.
ClusterRelationsFirstMember(connected_dossier) ==
    Cardinality({i \in 1 .. Len(relation_red) :
                    \/ relation_red[i].source_dossierid = connected_dossier[1]
                    \/ relation_red[i].target_dossierid = connected_dossier[1]})

\* len(lut_relation): the rows of relation_red touching a member.
ClusterRelations(connected_dossier) ==
    Cardinality({i \in 1 .. Len(relation_red) :
                    \/ InSeq(relation_red[i].source_dossierid, connected_dossier)
                    \/ InSeq(relation_red[i].target_dossierid, connected_dossier)})

\* The id, the size and the count written to the row at hand only.
AssignClusterOwnRow ==
    /\ pc = "cluster_id"
    /\ LET connected_dossier == dossier[rows[d_i]].connected_dossier IN
       IF connected_dossier # <<>> /\ ~InSeq(connected_dossier, lut_cluster)
       THEN /\ lut_cluster' = Append(lut_cluster, connected_dossier)
            /\ dossier' =
                 [dossier EXCEPT
                    ![rows[d_i]].cluster_id = Len(lut_cluster) + 1,
                    ![rows[d_i]].cluster_size = Len(connected_dossier),
                    ![rows[d_i]].cluster_nrelations =
                        ClusterRelations(connected_dossier)]
       ELSE UNCHANGED <<lut_cluster, dossier>>
    /\ d_i' = IF d_i = Len(rows) THEN 1 ELSE d_i + 1
    /\ pc' = IF d_i = Len(rows) THEN "type" ELSE pc
    /\ UNCHANGED <<rows, relation, relation_red, street_i, numbers_done,
                   n_correction, corr_i, dossier_type, entry,
                   groups_done, closure>>

\* One row of `for row in dossier.iterrows()` (lines 789-812).  The key
\* str(connected_dossier) is the list itself; cluster_id is the number of
\* keys plus one.
AssignCluster ==
    /\ pc = "cluster_id"
    /\ LET connected_dossier == dossier[rows[d_i]].connected_dossier IN
       IF connected_dossier # <<>> /\ ~InSeq(connected_dossier, lut_cluster)
       THEN /\ lut_cluster' = Append(lut_cluster, connected_dossier)
            /\ dossier' =
                 [r \in DOMAIN dossier |->
                    IF InSeq(dossier[r].dossierId, connected_dossier)
                    THEN [dossier[r] EXCEPT
                            !.cluster_id = Len(lut_cluster) + 1,
                            !.cluster_size = Len(connected_dossier),
                            !.cluster_nrelations =
                                ClusterRelations(connected_dossier)]
                    ELSE dossier[r]]
       ELSE UNCHANGED <<lut_cluster, dossier>>
    /\ d_i' = IF d_i = Len(rows) THEN 1 ELSE d_i + 1
    /\ pc' = IF d_i = Len(rows) THEN "type" ELSE pc
    /\ UNCHANGED <<rows, relation, relation_red, street_i, numbers_done,
                   n_correction, corr_i, dossier_type, entry,
                   groups_done, closure>>

(***************************************************************************)
(* Relations from cluster and dossier type (lines 814-982).                *)
(***************************************************************************)
\* The cluster ids of the table: the keys of dossier.groupby('cluster_id').
GroupKeys(table, index) ==
    {table[r].cluster_id : r \in Range(index)} \ {0}

\* pd.merge(dossier, dossier_type, on='dossierId'): the rows with a type.
MergeType ==
    /\ pc = "type"
    /\ LET Test(r) == dossier_type[dossier[r].dossierId] # ""
           merged == [r \in DOMAIN dossier |->
                        [dossier[r] EXCEPT
                            !.type = dossier_type[dossier[r].dossierId]]]
       IN /\ rows' = SelectSeq(rows, Test)
          /\ dossier' = merged
          /\ pc' = IF GroupKeys(merged, SelectSeq(rows, Test)) = {}
                   THEN "done" ELSE "derive"
    /\ UNCHANGED <<relation, relation_red, street_i, numbers_done,
                   n_correction, corr_i, d_i, lut_cluster,
                   dossier_type, entry, groups_done, closure>>

RECURSIVE Insert(_, _)
Insert(x, q) ==
    IF q = <<>> THEN <<x>>
    ELSE IF x <= Head(q) THEN <<x>> \o q
    ELSE <<Head(q)>> \o Insert(x, Tail(q))

RECURSIVE Sorted(_)
Sorted(q) == IF q = <<>> THEN <<>> ELSE Insert(Head(q), Sorted(Tail(q)))

\* Twice statistics.median(years), for a non-empty list of years.
Median2(years) ==
    LET q == Sorted(years)
        n == Len(q)
    IN IF n % 2 = 1 THEN 2 * q[(n + 1) \div 2]
       ELSE q[n \div 2] + q[n \div 2 + 1]

\* group[group['type'] == type], as index labels.
OfType(group, type) ==
    LET Test(r) == dossier[r].type = type IN SelectSeq(group, Test)

year_median(r) == Median2(entry[dossier[r].dossierId])

\* The comparisons of the medians taken as not strict.
DerivedRelationNotStrict(one, two) ==
    IF year_median(one) >= year_median(two[1])
       /\ year_median(one) >= year_median(two[2])
    THEN << Pair(dossier[two[1]].dossierId, dossier[one].dossierId),
            Pair(dossier[two[2]].dossierId, dossier[one].dossierId) >>
    ELSE IF year_median(one) <= year_median(two[1])
            /\ year_median(one) <= year_median(two[2])
    THEN << Pair(dossier[one].dossierId, dossier[two[1]].dossierId),
            Pair(dossier[one].dossierId, dossier[two[2]].dossierId) >>
    ELSE <<>>

\* The two rows of new_relation for the merged dossier `one` and the two
\* parts `two` (lines 833-853, 871-890, 909-928, 946-965).
DerivedRelation(one, two) ==
    IF year_median(one) > year_median(two[1])
       /\ year_median(one) > year_median(two[2])
    THEN << Pair(dossier[two[1]].dossierId, dossier[one].dossierId),
            Pair(dossier[two[2]].dossierId, dossier[one].dossierId) >>
    ELSE IF year_median(one) < year_median(two[1])
            /\ year_median(one) < year_median(two[2])
    THEN << Pair(dossier[one].dossierId, dossier[two[1]].dossierId),
            Pair(dossier[one].dossierId, dossier[two[2]].dossierId) >>
    ELSE <<>>

\* Only the pattern of two partOf and one unchanged.
GroupRelationPartOfOnly(group) ==
    IF Len(OfType(group, "partOf")) = 2 /\ Len(OfType(group, "unchanged")) = 1
    THEN DerivedRelation(OfType(group, "unchanged")[1], OfType(group, "partOf"))
    ELSE <<>>

\* new_relation for a group of three rows (lines 831-832, 908).
GroupRelation(group) ==
    IF Len(OfType(group, "partOf")) = 2 /\ Len(OfType(group, "unchanged")) = 1
    THEN DerivedRelation(OfType(group, "unchanged")[1], OfType(group, "partOf"))
    ELSE IF Len(OfType(group, "unchanged")) = 2
            /\ Len(OfType(group, "joined")) = 1
    THEN DerivedRelation(OfType(group, "joined")[1], OfType(group, "unchanged"))
    ELSE <<>>

\* The rows of new_relation, whether relation_red holds them or not.
LeftOnlyUnfiltered(new_relation) == new_relation

\* Lines 854-857: the rows of new_relation that are not rows of relation_red
\* (the outer merge returns them sorted by source and target).
LeftOnly(new_relation) ==
    LET Test(e) == ~InSeq(e, relation_red)
        left == SelectSeq(new_relation, Test)
    IN IF Len(left) = 2
          /\ (\/ left[2].source_dossierid < left[1].source_dossierid
              \/ /\ left[2].source_dossierid = left[1].source_dossierid
                 /\ left[2].target_dossierid < left[1].target_dossierid)
       THEN <<left[2], left[1]>>
       ELSE left

\* One group of `for name, group in cluster` (lines 825-982): the groups are
\* visited by ascending cluster id.
DeriveCluster ==
    /\ pc = "derive"
    /\ LET keys == GroupKeys(dossier, rows) \ groups_done
           name == CHOOSE k \in keys : \A x \in keys : k <= x
           InGroup(r) == dossier[r].cluster_id = name
           group == SelectSeq(rows, InGroup)
           last == keys = {name}
       IN /\ groups_done' = groups_done \cup {name}
          /\ IF Len(group) = 3
                /\ \E i \in 1 .. 3 : entry[dossier[group[i]].dossierId] = <<>>
             THEN \* statistics.median raises StatisticsError.
                  /\ pc' = "crashed"
                  /\ UNCHANGED <<dossier, relation_red>>
             ELSE LET new_relation ==
                          IF Len(group) = 3 THEN LeftOnly(GroupRelation(group))
                          ELSE <<>>
                  IN /\ pc' = IF last THEN "done" ELSE pc
                     /\ relation_red' = relation_red \o new_relation
                     /\ dossier' =
                          [r \in DOMAIN dossier |->
                             IF new_relation # <<>>
                                /\ InSeq(dossier[r].dossierId, Ids(group))
                             THEN [dossier[r] EXCEPT
                                     !.cluster_nrelations = @ + Len(new_relation),
                                     !.note = Append(@,
                                                "Relation found on cluster. ")]
                             ELSE dossier[r]]
    /\ UNCHANGED <<rows, relation, street_i, numbers_done, n_correction,
                   corr_i, d_i, lut_cluster, dossier_type, entry, closure>>

(***************************************************************************)
(* The table after the corrections (line 316), and the start of the        *)
(* relationship detection (lines 318-323, 473).                            *)
(***************************************************************************)
Row(id, street, numbers, number_partof, descriptiveNote) ==
    [dossierId |-> id, street |-> street, numbers |-> numbers,
     number_partof |-> number_partof, descriptiveNote |-> descriptiveNote,
     note_postprocessing |-> <<>>, note |-> <<>>, connected_dossier |-> <<>>,
     outside_match |-> descriptiveNote, cluster_id |-> 0, cluster_size |-> 0,
     cluster_nrelations |-> 0, type |-> ""]

\* The variables at line 323, for a table and its side inputs.
Start(table, ncorr, types, entries) ==
    /\ dossier = table
    /\ rows = [i \in DOMAIN table |-> i]
    /\ relation = <<>>
    /\ relation_red = <<>>
    /\ numbers_done = {}
    /\ street_i = NextStreet(1)
    /\ n_correction = ncorr
    /\ corr_i = 0
    /\ d_i = 1
    /\ lut_cluster = <<>>
    /\ dossier_type = types
    /\ entry = entries
    /\ groups_done = {}
    /\ closure = Idle
    /\ pc = IF street_i = 0 THEN AfterCluster ELSE "cluster"

Dossiers == 1 .. MaxDossier
NoTypes == [i \in Dossiers |-> ""]
NoEntries == [i \in Dossiers |-> <<>>]

(***************************************************************************)
(* Clustering: dossiers of two streets with every combination of house     *)
(* numbers; and dossiers with at most one house number under up to         *)
(* MaxCorrection additional addresses.                                     *)
(***************************************************************************)
ClusterNumbers == {None, Str("10"), List(<<"10", "12">>), List(<<"12", "14">>)}

\* The first dossier is in Eisengasse: the street names are interchangeable.
StreetsOf == {st \in [Dossiers -> Streets] : st[1] = "Eisengasse"}

InitCluster ==
    \/ \E st \in StreetsOf, nu \in [Dossiers -> ClusterNumbers] :
          Start([i \in Dossiers |-> Row(i, st[i], nu[i], None, <<>>)],
                0, NoTypes, NoEntries)
    \/ \E st \in StreetsOf, nu \in [Dossiers -> {None, Str("10")}] :
          Start([i \in Dossiers |-> Row(i, st[i], nu[i], None, <<>>)],
                MaxCorrection, NoTypes, NoEntries)

NextCluster == ClusterNumber \/ AdditionalAddress

SpecCluster == InitCluster /\ [][NextCluster]_vars

(***************************************************************************)
(* Properties of the clusters.                                             *)
(***************************************************************************)
Connected(a) == Range(dossier[a].connected_dossier)
ClusteringDone == pc \notin {"cluster", "address"}
ShareNumber(a, b) ==
    Range(AsList(dossier[a].numbers)) \cap Range(AsList(dossier[b].numbers)) # {}

\* C1: at the end of the clustering (every street, then every additional
\* address) connected_dossier is symmetric: if B is in the list of A then A
\* is in the list of B.
C1_ConnectedSymmetric ==
    ClusteringDone =>
        \A a, b \in Range(rows) :
            dossier[b].dossierId \in Connected(a)
                => dossier[a].dossierId \in Connected(b)

\* A cluster that an additional address enlarged by a dossier of another
\* street and that holds three dossiers.
C1_Witness ==
    /\ ClusteringDone
    /\ corr_i > 0
    /\ \E a, b \in Range(rows) :
          /\ dossier[a].street # dossier[b].street
          /\ dossier[b].dossierId \in Connected(a)
          /\ Cardinality(Connected(a)) >= 3

\* C2: after the streets are clustered, dossiers chained by shared house
\* numbers of one street are in each other's connected_dossier, whatever the
\* order in which the numbers of the street were iterated.
C2_ConnectedTransitive ==
    pc # "cluster" =>
        \A a, b, c \in Range(rows) :
            ( /\ a # b /\ b # c
              /\ dossier[a].street = dossier[b].street
              /\ dossier[b].street = dossier[c].street
              /\ ShareNumber(a, b) /\ ShareNumber(b, c) )
            => /\ dossier[c].dossierId \in Connected(a)
               /\ dossier[a].dossierId \in Connected(c)

\* Three dossiers of a street: the first and the third share no number.
C2_Witness ==
    /\ pc # "cluster"
    /\ \E a, b, c \in Range(rows) :
          /\ a # b /\ b # c /\ a # c
          /\ dossier[a].street = dossier[b].street
          /\ dossier[b].street = dossier[c].street
          /\ ShareNumber(a, b) /\ ShareNumber(b, c) /\ ~ShareNumber(a, c)
          /\ dossier[c].dossierId \in Connected(a)

(***************************************************************************)
(* The whole detection without additional addresses: lines 317-424 and     *)
(* 472-982.                                                                *)
(***************************************************************************)
NextDetect ==
    \/ ClusterNumber
    \/ NoteExtract
    \/ DropDuplicates
    \/ AssignCluster
    \/ MergeType
    \/ DeriveCluster

(***************************************************************************)
(* Triples: the dossiers of one street that hold number 10, with notes on  *)
(* the year of a change; and the same dossiers with a type and entries.    *)
(***************************************************************************)
Bis1700 == <<"Bis", " ", "1700", ".">>
Seit1700 == <<"Seit", " ", "1700", ".">>
Seit1701 == <<"Seit", " ", "1701", ".">>
BisVorher == <<"Bis", " ", "1700", ".", " ", "Vorher siehe", " ", "10", ".">>
Cell(numbers, descriptiveNote) ==
    [numbers |-> numbers, descriptiveNote |-> descriptiveNote]
TripleCells ==
    {Cell(Str("10"), Bis1700), Cell(Str("10"), Seit1700),
     Cell(Str("10"), Seit1701), Cell(Str("10"), <<>>),
     Cell(List(<<"10", "12">>), Bis1700), Cell(List(<<"10", "12">>), BisVorher),
     Cell(None, Bis1700), Cell(Str("12"), Seit1700)}

Typed(descriptiveNote, type, years) ==
    [descriptiveNote |-> descriptiveNote, type |-> type, years |-> years]
TripleTyped ==
    {Typed(Bis1700, "partOf", <<1699>>), Typed(Bis1700, "partOf", <<1701>>),
     Typed(Seit1700, "unchanged", <<1699>>),
     Typed(Seit1700, "unchanged", <<1701>>),
     Typed(Bis1700, "unchanged", <<1701>>)}

InitTriple ==
    \/ \E c \in [Dossiers -> TripleCells] :
          Start([i \in Dossiers |->
                   Row(i, "Eisengasse", c[i].numbers, None, c[i].descriptiveNote)],
                0, NoTypes, NoEntries)
    \/ \E t \in [Dossiers -> TripleTyped] :
          Start([i \in Dossiers |->
                   Row(i, "Eisengasse", Str("10"), None, t[i].descriptiveNote)],
                0, [i \in Dossiers |-> t[i].type],
                [i \in Dossiers |-> t[i].years])

SpecTriple == InitTriple /\ [][NextDetect]_vars

\* The rows of the three dossiers a, b, c form the dossier_n of a number:
\* one street, and a cluster of exactly these three.
IsTriple(a, b, c) ==
    /\ a # b /\ a # c /\ b # c
    /\ \A x \in {a, b, c} :
          /\ dossier[x].street = dossier[a].street
          /\ Connected(x) = {dossier[a].dossierId, dossier[b].dossierId,
                             dossier[c].dossierId}

\* The note of x starts with `prefix`, a blank and the four digits `year`.
StartsWith(x, prefix, year) ==
    LET dn == dossier[x].descriptiveNote
    IN Len(dn) >= 3 /\ dn[1] = prefix /\ dn[2] = " " /\ dn[3] = year

\* The edges the claim names for the triple: every Bis dossier to every Seit
\* dossier, when the three notes have one year and split two to one.
TripleEdges(a, b, c) ==
    IF \E year \in Years :
          /\ \A x \in {a, b, c} :
                StartsWith(x, "Bis", year) \/ StartsWith(x, "Seit", year)
          /\ Cardinality({x \in {a, b, c} : StartsWith(x, "Bis", year)}) \in {1, 2}
    THEN {Pair(dossier[x].dossierId, dossier[y].dossierId) :
            x \in {z \in {a, b, c} : dossier[z].descriptiveNote[1] = "Bis"},
            y \in {z \in {a, b, c} : dossier[z].descriptiveNote[1] = "Seit"}}
    ELSE {}

Among(a, b, c) ==
    {Pair(dossier[x].dossierId, dossier[y].dossierId) : x, y \in {a, b, c}}

\* The (source, target) pairs of the rows of `relation` whose origin has
\* len entries: 3 for the triple detection, 1 for the note.
PairsOfOrigin(len) ==
    {Pair(relation[i].source_dossierid, relation[i].target_dossierid) :
        i \in {j \in 1 .. Len(relation) : Len(relation[j].origin) = len}}

\* The rows the cluster derivation appended to relation_red.
DerivedRows ==
    LET base == Cardinality(PairsOfOrigin(3) \cup PairsOfOrigin(1))
    IN {i \in 1 .. Len(relation_red) : i > base}

DerivedPairs == {relation_red[i] : i \in DerivedRows}

Rows(pair) == {i \in 1 .. Len(relation_red) : relation_red[i] = pair}

\* C8: for a triple whose notes all start with Bis or Seit and one year, two
\* of one kind and one of the other, the triple detection produces exactly
\* the edges from every Bis dossier to every Seit dossier, and the final
\* table holds each of them once; the other edges of the final table among
\* the three come from the note of a dossier or from the cluster derivation.
C8_TripleEdges ==
    pc = "done" =>
        \A a, b, c \in DOMAIN dossier :
            (IsTriple(a, b, c) /\ TripleEdges(a, b, c) # {}) =>
                /\ Cardinality(TripleEdges(a, b, c)) = 2
                /\ PairsOfOrigin(3) \cap Among(a, b, c) = TripleEdges(a, b, c)
                /\ \A e \in TripleEdges(a, b, c) : Cardinality(Rows(e)) = 1
                /\ (Range(relation_red) \cap Among(a, b, c))
                      \ (PairsOfOrigin(1) \cup DerivedPairs)
                   = TripleEdges(a, b, c)

\* C8 as stated: the final table holds exactly the two edges among the three.
C8_FinalTableExactlyTwo ==
    pc = "done" =>
        \A a, b, c \in DOMAIN dossier :
            (IsTriple(a, b, c) /\ TripleEdges(a, b, c) # {}) =>
                /\ Range(relation_red) \cap Among(a, b, c) = TripleEdges(a, b, c)
                /\ \A e \in TripleEdges(a, b, c) : Cardinality(Rows(e)) = 1

\* Two Bis dossiers and one Seit dossier that hold the numbers 10 and 12: the
\* triple is detected for both numbers, and the final table has two rows.
C8_Witness ==
    /\ pc = "done"
    /\ Len(relation) = 4
    /\ Len(relation_red) = 2
    /\ \E a, b, c \in DOMAIN dossier :
          /\ IsTriple(a, b, c)
          /\ StartsWith(a, "Bis", "1700") /\ StartsWith(b, "Bis", "1700")
          /\ StartsWith(c, "Seit", "1700")
          /\ Range(relation_red) = TripleEdges(a, b, c)

(***************************************************************************)
(* Notes with a statement: the first dossier holds a note on later or      *)
(* earlier dossiers, the others are the dossiers it may refer to.          *)
(***************************************************************************)
Single(keyword) == <<keyword, " ", "10", ".">>
\* "Nachher siehe 10 und 12.", "Vorher siehe 10 u. 12."
Two(keyword) ==
    <<keyword, " ", "10", " ",
      IF keyword = "Vorher siehe" THEN "u." ELSE "und", " ", "12", ".">>
United(keyword) ==
    <<"Haus", ".", " ", keyword, " ", "10", ",", " ", "12", " ", "vereinigt", ".">>
Hyphen(keyword) == <<keyword, " ", "10", "/", " ", "12", "-", "14", ".">>
Keywords == {"Nachher siehe", "Vorher siehe"}
StatementNotes ==
    UNION {{Single(k), Two(k), United(k), Hyphen(k)} : k \in Keywords}
        \cup {<<"Vorher siehe", " ", "12", ".", " ", "Nachher siehe", " ", "10", ".">>}

Sibling(street, numbers, number_partof) ==
    [street |-> street, numbers |-> numbers, number_partof |-> number_partof]
Siblings ==
    {Sibling("Eisengasse", Str("10"), None),
     Sibling("Eisengasse", Str("12"), None),
     Sibling("Eisengasse", Str("10"), Str("10")),
     Sibling("Eisengasse", List(<<"12", "10">>), None),
     Sibling("Eisengasse", List(<<"12", "10">>), Str("12")),
     Sibling("Petersgraben", Str("10"), None)}

\* The dossier with a list and a part-of number is the second one, if any,
\* and the lists are held by the second and the third dossier.
SiblingsOf ==
    {sb \in [Dossiers \ {1} -> Siblings] :
        \A i \in Dossiers \ {1, 2} :
           /\ ~isna(sb[i].number_partof) => sb[i].numbers.k # "list"
           /\ i > 3 => sb[i].numbers.k # "list"}

InitNote ==
    \E nu \in {Str("10"), Str("14")}, dn \in StatementNotes,
       sb \in SiblingsOf :
       Start([i \in Dossiers |->
                IF i = 1 THEN Row(1, "Eisengasse", nu, None, dn)
                ELSE Row(i, sb[i].street, sb[i].numbers, sb[i].number_partof, <<>>)],
             0, NoTypes, NoEntries)

NextNote ==
    \/ ClusterNumber
    \/ NoteExtract
    \/ DropDuplicates
    \/ AssignCluster
    \/ MergeType

SpecNote == InitNote /\ [][NextNote]_vars

\* The dossiers a note of r may refer to: the others of its street that are
\* not part of a house number.
Others(r) ==
    {x \in DOMAIN dossier \ {r} :
        /\ dossier[x].street = dossier[r].street
        /\ isna(dossier[x].number_partof)}

MatchNumber(r, n) == {x \in Others(r) : dossier[x].numbers = Str(n)}

MatchUnited(r, numbers) ==
    {x \in Others(r) :
        /\ dossier[x].numbers.k = "list"
        /\ Len(dossier[x].numbers.v) = Len(numbers)
        /\ Range(dossier[x].numbers.v) = Range(numbers)}

\* The numbers the statement of the direction captures in the note of r.
Captured(r, keyword) ==
    CapturedNumbers(dossier[r].descriptiveNote, keyword, keyword = "Vorher siehe")

HasStatement(r, keyword) == StatementMatch(dossier[r].descriptiveNote, keyword).ok

IsUnited(r, keyword) ==
    LET m == StatementMatch(dossier[r].descriptiveNote, keyword)
    IN /\ m.ok
       /\ MatchCombined(dossier[r].descriptiveNote, 1,
                        SubSeq(dossier[r].descriptiveNote, m.start, m.end))

\* The dossiers the statement of the direction refers to without ambiguity,
\* one entry per captured number (or one for the united set).
UniqueMatches(r, keyword) ==
    LET numbers == Captured(r, keyword)
        One(i) == Cardinality(MatchNumber(r, numbers[i])) = 1
        idx == SelectSeq([i \in 1 .. Len(numbers) |-> i], One)
    IN IF ~HasStatement(r, keyword) THEN <<>>
       ELSE IF IsUnited(r, keyword)
       THEN IF Cardinality(MatchUnited(r, numbers)) = 1
            THEN <<CHOOSE x \in MatchUnited(r, numbers) : TRUE>> ELSE <<>>
       ELSE [i \in 1 .. Len(idx) |->
                CHOOSE x \in MatchNumber(r, numbers[idx[i]]) : TRUE]

\* The rows of `relation` that the note of r produced, by direction.
NoteRows(r, following) ==
    LET Test(e) == /\ e.origin = <<dossier[r].dossierId>>
                   /\ IF following
                      THEN e.source_dossierid = dossier[r].dossierId
                      ELSE e.target_dossierid = dossier[r].dossierId
    IN SelectSeq(relation, Test)

OtherEnd(e, following) ==
    IF following THEN e.target_dossierid ELSE e.source_dossierid

\* Row r of the table has been through the search on its note.
Extracted(r) == pc \in {"dedup", "cluster_id", "type", "derive", "done"}
                   \/ (pc = "note" /\ d_i > r)

\* C4: every edge the note of a dossier produced goes to a dossier that is
\* the only one of the street, the dossier itself and the part-of dossiers
\* left out, whose numbers are the captured number (or a permutation of the
\* united numbers); a number matched by no dossier or by several produces
\* no edge.
C4_UniqueSibling ==
    \A r \in DOMAIN dossier : \A following \in BOOLEAN :
        LET keyword == IF following THEN "Nachher siehe" ELSE "Vorher siehe"
            found == NoteRows(r, following)
            unique == UniqueMatches(r, keyword)
        IN /\ Len(found) <= Len(unique)
           /\ \A i \in 1 .. Len(found) :
                 \E j \in 1 .. Len(unique) :
                    OtherEnd(found[i], following) = dossier[unique[j]].dossierId

\* The note names number 10, which a part-of dossier and exactly one other
\* dossier of the street hold: the edge goes to the other one.
C4_Witness ==
    /\ Extracted(1)
    /\ dossier[1].descriptiveNote = Single("Nachher siehe")
    /\ \E x, y \in DOMAIN dossier :
          /\ x # 1 /\ y # 1
          /\ dossier[x].street = "Eisengasse" /\ dossier[y].street = "Eisengasse"
          /\ dossier[x].numbers = Str("10") /\ dossier[y].numbers = Str("10")
          /\ isna(dossier[x].number_partof) /\ ~isna(dossier[y].number_partof)
          /\ NoteRows(1, TRUE) = <<Edge(<<1>>, 1, dossier[x].dossierId)>>

\* The note with the statements of the two directions exchanged.
Mirror(note) ==
    [i \in 1 .. Len(note) |->
        IF note[i] = "Nachher siehe" THEN "Vorher siehe"
        ELSE IF note[i] = "Vorher siehe" THEN "Nachher siehe"
        ELSE note[i]]

Reversed(edges) ==
    [i \in 1 .. Len(edges) |->
        Edge(edges[i].origin, edges[i].target_dossierid, edges[i].source_dossierid)]

\* What the search starts from on row r (lines 473-475).
Before(r) ==
    [relation |-> <<>>, outside_match |-> dossier[r].descriptiveNote,
     note |-> <<>>, note_postprocessing |-> <<>>]

\* The edges of a later-see statement leave the dossier of the note, the
\* edges of an earlier-see statement arrive at it.
C5_Direction ==
    \A i \in 1 .. Len(relation) :
        Len(relation[i].origin) = 1 =>
            LET e == relation[i]
                r == CHOOSE x \in DOMAIN dossier :
                        dossier[x].dossierId = e.origin[1]
            IN \/ /\ e.source_dossierid = dossier[r].dossierId
                  /\ \E j \in 1 .. Len(UniqueMatches(r, "Nachher siehe")) :
                        e.target_dossierid
                            = dossier[UniqueMatches(r, "Nachher siehe")[j]].dossierId
               \/ /\ e.target_dossierid = dossier[r].dossierId
                  /\ \E j \in 1 .. Len(UniqueMatches(r, "Vorher siehe")) :
                        e.source_dossierid
                            = dossier[UniqueMatches(r, "Vorher siehe")[j]].dossierId

\* The edges the search for earlier dossiers produced are the edges the
\* search for later dossiers produces on the mirrored note, reversed; and the
\* other way round.  Read at the end of the loop over the notes.
C5_SameButArrow ==
    \A r \in DOMAIN dossier :
        pc = "dedup" =>
            LET note == dossier[r].descriptiveNote
            IN /\ NoteRows(r, FALSE)
                    = Reversed(Following(r, Mirror(note), Before(r)).relation)
               /\ NoteRows(r, TRUE)
                    = Reversed(Previous(r, Mirror(note), Before(r)).relation)

\* C5: the edges of a later-see statement of dossier D go from D to the
\* matched dossier, the edges of an earlier-see statement go from the matched
\* dossier to D, and the two searches differ in nothing but this direction.
C5_DirectionOnly == C5_Direction /\ C5_SameButArrow

\* C6: when the note of a dossier says "later see n1, n2 united" and exactly
\* one other dossier of the street that is not a part-of dossier holds a
\* permutation of the captured numbers, the statement produces exactly one
\* edge, from the dossier to that one, and outside_match holds neither the
\* statement nor its qualifier.
C6_UnitedEdge ==
    \A r \in DOMAIN dossier :
        ( /\ Extracted(r)
          /\ IsUnited(r, "Nachher siehe")
          /\ Cardinality(MatchUnited(r, Captured(r, "Nachher siehe"))) = 1 )
        => LET x == CHOOSE y \in MatchUnited(r, Captured(r, "Nachher siehe")) : TRUE
           IN /\ NoteRows(r, TRUE)
                   = <<Edge(<<dossier[r].dossierId>>, dossier[r].dossierId,
                            dossier[x].dossierId)>>
              /\ "Nachher siehe" \notin Range(dossier[r].outside_match)
              /\ "vereinigt" \notin Range(dossier[r].outside_match)

\* "Haus. Nachher siehe 10, 12 vereinigt." with one dossier for 12 and 10:
\* the edge is there and the words before the statement are what is left.
C6_Witness ==
    /\ Extracted(1)
    /\ dossier[1].descriptiveNote = United("Nachher siehe")
    /\ Len(NoteRows(1, TRUE)) = 1
    /\ dossier[1].outside_match = <<"Haus", ".", " ", ".">>

\* Another dossier of the street holds two or more of the captured numbers
\* as its list of numbers.
HasCombined(r, numbers) ==
    \E x \in DOMAIN dossier :
        /\ x # r
        /\ dossier[x].street = dossier[r].street
        /\ dossier[x].numbers.k = "list"
        /\ Len(dossier[x].numbers.v) > 1
        /\ Range(dossier[x].numbers.v) \subseteq Range(numbers)

\* C7: when the note says "later see n1 and n2" without the qualifier, no
\* dossier combines the captured numbers and each number is held by exactly
\* one other dossier of the street, the statement produces two edges, one to
\* each of the two dossiers, and no other.
C7_SeparateEdges ==
    \A r \in DOMAIN dossier :
        LET numbers == Captured(r, "Nachher siehe") IN
        ( /\ Extracted(r)
          /\ HasStatement(r, "Nachher siehe")
          /\ ~IsUnited(r, "Nachher siehe")
          /\ Len(numbers) = 2
          /\ ~HasCombined(r, numbers)
          /\ \A i \in 1 .. 2 : Cardinality(MatchNumber(r, numbers[i])) = 1 )
        => NoteRows(r, TRUE)
             = [i \in 1 .. 2 |->
                  Edge(<<dossier[r].dossierId>>, dossier[r].dossierId,
                       dossier[CHOOSE x \in MatchNumber(r, numbers[i]) : TRUE].dossierId)]

\* "Nachher siehe 10 und 12." with one dossier for 10 and one for 12.
C7_Witness ==
    /\ Extracted(1)
    /\ dossier[1].descriptiveNote = Two("Nachher siehe")
    /\ Len(NoteRows(1, TRUE)) = 2
    /\ NoteRows(1, TRUE)[1].target_dossierid # NoteRows(1, TRUE)[2].target_dossierid

(***************************************************************************)
(* Clusters with types: three dossiers at one number with a type and the   *)
(* years of their entries; and dossiers whose notes, types and entries     *)
(* lead the triple detection, the note and the derivation to one edge.     *)
(***************************************************************************)
BisNachher == <<"Bis", " ", "1700", ".", " ", "Nachher siehe", " ", "10", ".">>
SeitNachher == <<"Seit", " ", "1700", ".", " ", "Nachher siehe", " ", "10", ".">>
TypeYears(type, years) == [type |-> type, years |-> years]
DeriveTyped ==
    {TypeYears("partOf", <<1700>>), TypeYears("partOf", <<1702>>),
     TypeYears("partOf", <<>>),
     TypeYears("unchanged", <<1700>>), TypeYears("unchanged", <<1702>>),
     TypeYears("unchanged", <<1700, 1702>>),
     TypeYears("joined", <<1701>>),
     TypeYears("", <<>>)}

Full(numbers, descriptiveNote, type, years) ==
    [numbers |-> numbers, descriptiveNote |-> descriptiveNote, type |-> type,
     years |-> years]
DeriveFull ==
    {Full(List(<<"10", "12">>), Bis1700, "partOf", <<1700>>),
     Full(List(<<"10", "12">>), BisNachher, "partOf", <<1700>>),
     Full(List(<<"10", "12">>), <<>>, "partOf", <<1700>>),
     Full(Str("10"), Seit1700, "unchanged", <<1702>>),
     Full(Str("10"), Seit1700, "unchanged", <<1698>>),
     Full(Str("10"), SeitNachher, "unchanged", <<1698>>)}

InitDerive ==
    \/ \E t \in [Dossiers -> DeriveTyped] :
          Start([i \in Dossiers |-> Row(i, "Eisengasse", Str("10"), None, <<>>)],
                0, [i \in Dossiers |-> t[i].type],
                [i \in Dossiers |-> t[i].years])
    \/ \E f \in [Dossiers -> DeriveFull] :
          Start([i \in Dossiers |->
                   Row(i, "Eisengasse", f[i].numbers, None, f[i].descriptiveNote)],
                0, [i \in Dossiers |-> f[i].type],
                [i \in Dossiers |-> f[i].years])

SpecDerive == InitDerive /\ [][NextDetect]_vars

\* C3: the relation table has no two rows with the same source and target,
\* from the removal of the duplicates to the end of the run, also when the
\* triple detection, the note and the cluster derivation produce one edge.
C3_NoDuplicatePairs ==
    pc \in {"cluster_id", "type", "derive", "done"} =>
        \A i, j \in 1 .. Len(relation_red) :
            relation_red[i] = relation_red[j] => i = j

\* The triple detection (for two numbers) and the note produced one edge,
\* and the derivation from the types arrives at the edges of the table.
C3_Witness ==
    /\ pc = "done"
    /\ PairsOfOrigin(3) \cap PairsOfOrigin(1) # {}
    /\ Len(relation) = 5
    /\ Len(relation_red) = 2
    /\ Len(rows) = 3
    /\ Range(GroupRelation(rows)) = Range(relation_red)

\* The rows of the merged table with cluster id `name`.
GroupOf(name) == {r \in Range(rows) : dossier[r].cluster_id = name}

TypedAs(group, type) == {r \in group : dossier[r].type = type}

\* Twice the median of the years of the entries of dossier r: the middle
\* year, or the sum of the two middle years.
Median(r) ==
    LET years == entry[dossier[r].dossierId]
        Below(y) == Cardinality({i \in 1 .. Len(years) : years[i] < y})
        Above(y) == Cardinality({i \in 1 .. Len(years) : years[i] > y})
        lo == CHOOSE y \in Range(years) :
                 Below(y) <= (Len(years) - 1) \div 2
                 /\ Above(y) <= Len(years) \div 2
        hi == CHOOSE y \in Range(years) :
                 Below(y) <= Len(years) \div 2
                 /\ Above(y) <= (Len(years) - 1) \div 2
    IN lo + hi

\* The edges the claims name for the dossier `one` and the set `two`.
Expected(one, two) ==
    IF \A x \in two : Median(one) > Median(x)
    THEN {Pair(dossier[x].dossierId, dossier[one].dossierId) : x \in two}
    ELSE IF \A x \in two : Median(one) < Median(x)
    THEN {Pair(dossier[one].dossierId, dossier[x].dossierId) : x \in two}
    ELSE {}

IdPairs(group) ==
    {Pair(dossier[x].dossierId, dossier[y].dossierId) : x, y \in group}

\* The final table holds the expected edges of the group, and the derivation
\* appended no other edge between its members.
DerivedAsExpected(group, one, two) ==
    /\ Expected(one, two) \subseteq Range(relation_red)
    /\ DerivedPairs \cap IdPairs(group) \subseteq Expected(one, two)

\* C9: for a cluster of three typed two partOf and one unchanged, the edges
\* partOf -> unchanged are derived when the median year of the unchanged
\* dossier is later than both others, the edges unchanged -> partOf when it
\* is earlier than both, and no edge otherwise.
C9_PartOfUnchanged ==
    pc = "done" =>
        \A name \in GroupKeys(dossier, rows) :
            LET group == GroupOf(name) IN
            ( /\ Cardinality(group) = 3
              /\ Cardinality(TypedAs(group, "partOf")) = 2
              /\ Cardinality(TypedAs(group, "unchanged")) = 1 )
            => DerivedAsExpected(group,
                  CHOOSE x \in TypedAs(group, "unchanged") : TRUE,
                  TypedAs(group, "partOf"))

\* The unchanged dossier is later than the two partOf dossiers, and the
\* derivation appended the two edges to it.
C9_Witness ==
    /\ pc = "done"
    /\ Cardinality(DerivedRows) = 2
    /\ \E u \in Range(rows) :
          /\ dossier[u].type = "unchanged"
          /\ \A x \in Range(rows) \ {u} :
                /\ dossier[x].type = "partOf"
                /\ Median(u) > Median(x)
                /\ Pair(dossier[x].dossierId, dossier[u].dossierId) \in DerivedPairs

\* C10: for a cluster of three typed two unchanged and one joined, the edges
\* unchanged -> joined are derived when the median year of the joined dossier
\* is later than both others, the edges joined -> unchanged when it is
\* earlier than both, and no edge otherwise.
C10_UnchangedJoined ==
    pc = "done" =>
        \A name \in GroupKeys(dossier, rows) :
            LET group == GroupOf(name) IN
            ( /\ Cardinality(group) = 3
              /\ Cardinality(TypedAs(group, "unchanged")) = 2
              /\ Cardinality(TypedAs(group, "joined")) = 1 )
            => DerivedAsExpected(group,
                  CHOOSE x \in TypedAs(group, "joined") : TRUE,
                  TypedAs(group, "unchanged"))

\* The joined dossier is earlier than the two unchanged dossiers, and the
\* derivation appended the two edges from it.
C10_Witness ==
    /\ pc = "done"
    /\ Cardinality(DerivedRows) = 2
    /\ \E j \in Range(rows) :
          /\ dossier[j].type = "joined"
          /\ \A x \in Range(rows) \ {j} :
                /\ dossier[x].type = "unchanged"
                /\ Median(j) < Median(x)
                /\ Pair(dossier[j].dossierId, dossier[x].dossierId) \in DerivedPairs

(***************************************************************************)
(* Properties of the additional addresses.                                 *)
(***************************************************************************)
\* Row y is what an additional address can match: the first row of its
\* street whose numbers are the one number of an address.
Matchable(y) ==
    \E address \in Addresses :
        /\ AddressMatch(address)
        /\ DossierMatch(address[1], address[3]) # <<>>
        /\ DossierMatch(address[1], address[3])[1] = y

\* A step that changes the table in the loop over the additional addresses
\* writes the union U of the clusters of a dossier x and of a matched
\* dossier y, and of the two, to every member of U, each id once, and leaves
\* the clusters of the others as they are.
MergeStep ==
    (pc = "address" /\ dossier' # dossier) =>
        \E x, y \in DOMAIN dossier :
            /\ Matchable(y)
            /\ LET U == Connected(x) \cup Connected(y)
                           \cup {dossier[x].dossierId, dossier[y].dossierId}
               IN \A r \in DOMAIN dossier :
                     IF dossier[r].dossierId \in U
                     THEN /\ Range(dossier'[r].connected_dossier) = U
                          /\ Len(dossier'[r].connected_dossier) = Cardinality(U)
                     ELSE dossier'[r] = dossier[r]

\* Every member of a cluster holds the cluster, each id once.
ClustersAgree ==
    \A a, b \in DOMAIN dossier :
        dossier[b].dossierId \in Connected(a) =>
            /\ Connected(b) = Connected(a)
            /\ Len(dossier[b].connected_dossier) = Cardinality(Connected(a))

\* C11: each additional address that names a dossier X and matches a dossier
\* Y writes U = X.connected_dossier + Y.connected_dossier + {X, Y}, without
\* duplicates, to every dossier of U; and the members of the clusters merged
\* before keep agreeing on their cluster after every further address.
C11_MergeUnion == [][MergeStep]_vars /\ [](pc \in {"address", "note"} => ClustersAgree)

\* A cluster of two that a first address made and a second address enlarged
\* to three.
C11_Witness ==
    /\ corr_i = 2
    /\ \E a \in DOMAIN dossier :
          /\ Len(dossier[a].note) = 2
          /\ Cardinality(Connected(a)) = 3
          /\ \A b \in DOMAIN dossier :
                dossier[b].dossierId \in Connected(a) => Connected(b) = Connected(a)

(***************************************************************************)
(* The whole of main() from line 317 on: dossiers with at most one house   *)
(* number under one additional address, with or without notes on a change  *)
(* in 1700, with or without types and entries.                             *)
(***************************************************************************)
Next ==
    \/ ClusterNumber
    \/ AdditionalAddress
    \/ NoteExtract
    \/ DropDuplicates
    \/ AssignCluster
    \/ MergeType
    \/ DeriveCluster

RunNotes == {[i \in Dossiers |-> <<>>],
             [i \in Dossiers |-> IF i <= 2 THEN Bis1700 ELSE Seit1700]}
RunTypes == {NoTypes, [i \in Dossiers |-> IF i <= 2 THEN "partOf" ELSE "unchanged"]}
RunEntries == [i \in Dossiers |-> IF i <= 2 THEN <<1700>> ELSE <<1702>>]

Init ==
    \E st \in StreetsOf, nu \in [Dossiers -> {None, Str("10")}],
       dn \in RunNotes, ty \in RunTypes :
       Start([i \in Dossiers |-> Row(i, st[i], nu[i], None, dn[i])],
             1, ty, RunEntries)

Spec == Init /\ [][Next]_vars

(***************************************************************************)
(* Properties of the cluster ids.                                          *)
(***************************************************************************)
Assigned == pc \in {"type", "derive", "done"}

\* The first row of the table that holds cluster id k.
FirstRow(k) ==
    CHOOSE r \in DOMAIN dossier :
        /\ dossier[r].cluster_id = k
        /\ \A x \in DOMAIN dossier : dossier[x].cluster_id = k => r <= x

ClusterIds == {dossier[r].cluster_id : r \in DOMAIN dossier} \ {0}

\* C12: after the loop over the table, two dossiers hold one cluster id
\* exactly when they hold the same non-empty connected_dossier, a dossier
\* with an empty connected_dossier holds none, and the ids are 1, 2, 3, ...
\* in the order in which the table meets the first member of each cluster.
C12_ClusterIds ==
    Assigned =>
        /\ \A a, b \in DOMAIN dossier :
              (dossier[a].cluster_id # 0
                  /\ dossier[a].cluster_id = dossier[b].cluster_id)
              <=> (Connected(a) # {} /\ Connected(a) = Connected(b))
        /\ \A a \in DOMAIN dossier :
              Connected(a) = {} <=> dossier[a].cluster_id = 0
        /\ ClusterIds = 1 .. Cardinality(ClusterIds)
        /\ \A j, k \in ClusterIds : j < k => FirstRow(j) < FirstRow(k)

\* Two clusters, one of them with two dossiers: ids 1 and 2.
C12_Witness ==
    /\ Assigned
    /\ ClusterIds = {1, 2}
    /\ \E a, b \in DOMAIN dossier :
          a # b /\ dossier[a].cluster_id = dossier[b].cluster_id
                /\ dossier[a].cluster_id # 0

\* The edges of the relation table that touch the cluster of dossier r.
Touching(r) ==
    {e \in Range(relation_red) :
        e.source_dossierid \in Connected(r) \/ e.target_dossierid \in Connected(r)}

\* C13: cluster_nrelations of every dossier with a cluster is the number of
\* distinct edges of the relation table with an end in its cluster: for all
\* dossiers when the ids are assigned, and for the dossiers of the final
\* table at the end of the run, the derived edges included.
C13_RelationCount ==
    /\ pc = "type" =>
          \A r \in DOMAIN dossier :
              dossier[r].cluster_id # 0 =>
                  dossier[r].cluster_nrelations = Cardinality(Touching(r))
    /\ pc = "done" =>
          \A r \in Range(rows) :
              dossier[r].cluster_id # 0 =>
                  dossier[r].cluster_nrelations = Cardinality(Touching(r))

\* The derivation appended two edges to the table, and the dossiers of the
\* cluster count them.
C13_Witness ==
    /\ pc = "done"
    /\ Cardinality(DerivedRows) = 2
    /\ \E r \in Range(rows) :
          /\ dossier[r].cluster_id # 0
          /\ dossier[r].cluster_nrelations = Cardinality(Touching(r))
          /\ dossier[r].cluster_nrelations >= 2

(***************************************************************************)
(* The result of a run as a function of the tables read.                   *)
(***************************************************************************)
Linked(a, b) ==
    a # b /\ dossier[a].street = dossier[b].street /\ ShareNumber(a, b)

RECURSIVE Grow(_, _)
Grow(S, k) ==
    IF k = 0 THEN S
    ELSE Grow(S \cup {b \in DOMAIN dossier : \E a \in S : Linked(a, b)}, k - 1)

\* The dossiers chained to a by shared house numbers of its street.
Component(a) == Grow({a}, Cardinality(DOMAIN dossier))

IdsOf(S) == {dossier[x].dossierId : x \in S}

\* The edges of the triples: components of three with notes of one year.
ExpectedTriple ==
    UNION {TripleEdges(t[1], t[2], t[3]) :
              t \in {u \in (DOMAIN dossier) \X (DOMAIN dossier) \X (DOMAIN dossier) :
                        /\ u[1] # u[2] /\ u[1] # u[3] /\ u[2] # u[3]
                        /\ Component(u[1]) = {u[1], u[2], u[3]}}}

\* The edges of the note of r in one direction.
ExpectedOf(r, following) ==
    LET keyword == IF following THEN "Nachher siehe" ELSE "Vorher siehe"
        unique == UniqueMatches(r, keyword)
        skipped == /\ HasStatement(r, keyword)
                   /\ ~IsUnited(r, keyword)
                   /\ HasCombined(r, Captured(r, keyword))
    IN IF skipped \/ LetterInNumbers(dossier[r].numbers) THEN {}
       ELSE {IF following
             THEN Pair(dossier[r].dossierId, dossier[unique[i]].dossierId)
             ELSE Pair(dossier[unique[i]].dossierId, dossier[r].dossierId) :
                i \in 1 .. Len(unique)}

ExpectedNote ==
    UNION {ExpectedOf(r, TRUE) \cup ExpectedOf(r, FALSE) : r \in DOMAIN dossier}

\* The dossiers with a type in the component of a.
TypedGroup(a) == {x \in Component(a) : dossier_type[dossier[x].dossierId] # ""}

HasType(group, type) ==
    {x \in group : dossier_type[dossier[x].dossierId] = type}

ExpectedGroup(group) ==
    IF Cardinality(group) # 3 THEN {}
    ELSE IF Cardinality(HasType(group, "partOf")) = 2
            /\ Cardinality(HasType(group, "unchanged")) = 1
    THEN Expected(CHOOSE x \in HasType(group, "unchanged") : TRUE,
                  HasType(group, "partOf"))
    ELSE IF Cardinality(HasType(group, "unchanged")) = 2
            /\ Cardinality(HasType(group, "joined")) = 1
    THEN Expected(CHOOSE x \in HasType(group, "joined") : TRUE,
                  HasType(group, "unchanged"))
    ELSE {}

ExpectedDerived ==
    UNION {ExpectedGroup(TypedGroup(a)) :
              a \in {x \in DOMAIN dossier : Cardinality(Component(x)) > 1}}

\* C14: the relations and the clusters at the end of a run are a function of
\* the tables read: the clusters are the dossiers chained by shared house
\* numbers of a street, the relations are those of the triples, of the notes
\* and of the types, in whatever order the numbers of a street are iterated.
C14_OrderIndependent ==
    pc = "done" =>
        /\ \A a \in DOMAIN dossier :
              Connected(a) = IF Component(a) = {a} THEN {} ELSE IdsOf(Component(a))
        /\ Range(relation_red) = ExpectedTriple \cup ExpectedNote \cup ExpectedDerived

\* Dossier 2 holds number 10, dossiers 1 and 3 hold 10 and 12: the cluster
\* was last written for number 12, and the table holds relations.
C14_Witness ==
    /\ pc = "done"
    /\ relation_red # <<>>
    /\ dossier[1].connected_dossier = <<1, 3, 2>>

(***************************************************************************)
(* The closure loop in steps: chains of house numbers in one street and    *)
(* in two.                                                                 *)
(***************************************************************************)
ClosureNumbers ==
    {Str("12"), List(<<"10", "12">>), List(<<"12", "14">>),
     List(<<"14", "16">>)}

\* The last dossier is in either street.
ClosureStreets ==
    {st \in StreetsOf : \A i \in Dossiers : i < MaxDossier => st[i] = st[1]}

InitClosure ==
    \E st \in ClosureStreets, nu \in [Dossiers -> ClosureNumbers] :
       Start([i \in Dossiers |-> Row(i, st[i], nu[i], None, <<>>)],
             0, NoTypes, NoEntries)

NextClosure == SeedNumber \/ WhilePass \/ CloseNumber

SpecClosure == InitClosure /\ [][NextClosure]_vars

InLoop == pc = "while" /\ Len(closure.n_connected) > 1 /\ closure.new_number

\* The interpreter runs the next pass of the loop whenever there is one: a
\* pass is enabled exactly in the loop, so this is weak fairness of WhilePass.
SpecClosureFair == SpecClosure /\ (<>[]InLoop => []<><<WhilePass>>_vars)

\* A pass of the loop that does not end it has added a house number.
PassAddsOrEnds ==
    (pc = "while" /\ pc' = "while" /\ closure' # closure) =>
        \/ ~closure'.new_number
        \/ Len(closure'.n_connected) > Len(closure.n_connected)

\* C15: the loop over the connected numbers of a seed number ends: every
\* pass adds a house number or ends the loop, the numbers collected are
\* numbers of the street without repetition, and the loop is left.
C15_ClosureTerminates ==
    /\ [][PassAddsOrEnds]_vars
    /\ [](pc = "while" =>
             /\ Range(closure.n_connected) \subseteq StreetNumbers(streets[street_i])
             /\ Cardinality(Range(closure.n_connected)) = Len(closure.n_connected))
    /\ (InLoop ~> ~InLoop)

\* A pass has added two dossiers and two house numbers to those of the seed.
C15_Witness ==
    /\ pc = "while"
    /\ closure.new_number
    /\ Len(closure.n_connected) = 4
    /\ Len(closure.dossier_index) = 3

(***************************************************************************)
(* Street and house numbers of a title (lines 80-171, 194-286).  A string  *)
(* the code matches against a regular expression is the sequence of its    *)
(* characters, and so are the cells written from it; a "." in a pattern    *)
(* stands for any character but the line feed, as in the source.  The      *)
(* character classes \s and \w are those of a str pattern, for the         *)
(* characters up to U+00FF.                                                *)
(***************************************************************************)
Lower == {"a", "b", "c", "d", "e", "f", "g", "h", "i", "j", "k", "l", "m",
          "n", "o", "p", "q", "r", "s", "t", "u", "v", "w", "x", "y", "z"}
Upper == {"A", "B", "C", "D", "E", "F", "G", "H", "I", "J", "K", "L", "M",
          "N", "O", "P", "Q", "R", "S", "T", "U", "V", "W", "X", "Y", "Z"}
Digits == {"0", "1", "2", "3", "4", "5", "6", "7", "8", "9"}
\* \s, and the characters of lstrip() and split(): U+0009 to U+000D, U+001C
\* to U+001F, the blank, U+0085 and the no-break space U+00A0.
Whitespace == {"\t", "\n", "", "\f", "\r", "", "", "", "",
               " ", "", " "}
\* [a-zA-Zäöü]
Letter(c) == c \in Lower \cup Upper \cup {"ä", "ö", "ü"}
\* [a-zA-Zäöü\.\-\s]
StreetChar(c) == Letter(c) \/ c \in {".", "-"} \cup Whitespace
\* [.\w]: the period, and the letters, the digits and the underscore of a
\* str pattern.
PeriodOrWord(c) ==
    c \in Lower \cup Upper \cup Digits \cup {".", "_"}
            \cup {"ª", "²", "³", "µ", "¹", "º", "¼", "½", "¾"}
            \cup {"À", "Á", "Â", "Ã", "Ä", "Å", "Æ", "Ç", "È", "É", "Ê",
                  "Ë", "Ì", "Í", "Î", "Ï", "Ð", "Ñ", "Ò", "Ó", "Ô", "Õ",
                  "Ö", "Ø", "Ù", "Ú", "Û", "Ü", "Ý", "Þ", "ß", "à", "á",
                  "â", "ã", "ä", "å", "æ", "ç", "è", "é", "ê", "ë", "ì",
                  "í", "î", "ï", "ð", "ñ", "ò", "ó", "ô", "õ", "ö", "ø",
                  "ù", "ú", "û", "ü", "ý", "þ", "ÿ"}

\* A string of the parsing as a cell, and the string of a sequence of
\* characters.
Text(q) == [k |-> "text", v |-> q]
RECURSIVE Join(_)
Join(q) == IF q = <<>> THEN "" ELSE q[1] \o Join(Tail(q))

\* The pattern, a sequence of characters and ".", matches s after its first
\* i characters.
MatchAt(s, i, pattern) ==
    /\ i + Len(pattern) <= Len(s)
    /\ \A k \in 1 .. Len(pattern) :
          IF pattern[k] = "." THEN s[i + k] # "\n" ELSE pattern[k] = s[i + k]

\* "$" matches at the end of s and before a line feed that ends s: the
\* number of characters before the line feed that ends s, Len(s) without one.
LineEnd(s) ==
    IF s # <<>> /\ s[Len(s)] = "\n" THEN Len(s) - 1 ELSE Len(s)
\* ".*$" matches s after its first k characters, and takes the characters up
\* to LineEnd(s).
RestOfLine(s, k) == \A j \in k + 1 .. LineEnd(s) : s[j] # "\n"

\* s.find(sub, i): the number of characters before the first occurrence of
\* sub at or after offset i, -1 when there is none.
RECURSIVE Find(_, _, _)
Find(s, sub, i) ==
    IF i + Len(sub) > Len(s) THEN -1
    ELSE IF SubSeq(s, i + 1, i + Len(sub)) = sub THEN i
    ELSE Find(s, sub, i + 1)

\* s.replace(sub, '', 1)
ReplaceFirst(s, sub) ==
    IF Find(s, sub, 0) = -1 THEN s
    ELSE SubSeq(s, 1, Find(s, sub, 0))
           \o SubSeq(s, Find(s, sub, 0) + Len(sub) + 1, Len(s))

\* s.lstrip()
RECURSIVE LStrip(_)
LStrip(s) ==
    IF s # <<>> /\ s[1] \in Whitespace THEN LStrip(Tail(s)) ELSE s

\* s.split(sep) for a separator that is not empty.
RECURSIVE Split(_, _)
Split(s, sep) ==
    IF Find(s, sep, 0) = -1 THEN <<s>>
    ELSE <<SubSeq(s, 1, Find(s, sep, 0))>>
           \o Split(SubSeq(s, Find(s, sep, 0) + Len(sep) + 1, Len(s)), sep)

\* s.split()[0] of a string with a character that is no whitespace.
RECURSIVE WordEnd(_, _)
WordEnd(s, k) ==
    IF k < Len(s) /\ s[k + 1] \notin Whitespace THEN WordEnd(s, k + 1) ELSE k
FirstWord(s) == SubSeq(LStrip(s), 1, WordEnd(LStrip(s), 0))

\* [0-9]+ after the first k characters of s: the end of the longest run of
\* digits, k when no digit follows.
RECURSIVE DigitRun(_, _)
DigitRun(s, k) ==
    IF k < Len(s) /\ s[k + 1] \in Digits THEN DigitRun(s, k + 1) ELSE k

\* ( Theil)|( Th.)|( Th)|( T.)|( Tv.) of lines 93-94
StreetMarkers ==
    << <<" ", "T", "h", "e", "i", "l">>, <<" ", "T", "h", ".">>,
       <<" ", "T", "h">>, <<" ", "T", ".">>, <<" ", "T", "v", ".">> >>
\* (Theil )|(Th. )|(Th )|(T. )|(Tv. ) of lines 134, 257, 269, 279
Markers ==
    << <<"T", "h", "e", "i", "l", " ">>, <<"T", "h", ".", " ">>,
       <<"T", "h", " ">>, <<"T", ".", " ">>, <<"T", "v", ".", " ">> >>
\* (von )|(v. )
OfWords == << <<"v", "o", "n", " ">>, <<"v", ".", " ">> >>
\* ( neben | n. )
NextToWords ==
    << <<" ", "n", "e", "b", "e", "n", " ">>, <<" ", "n", ".", " ">> >>
\* ' ((u.)|(und)) '
AndWords == << <<" ", "u", ".", " ">>, <<" ", "u", "n", "d", " ">> >>
\* ( vor)|( unter)|( bei)|( alt)|( abgebrochen)|( innerhalb)
SpecialWords ==
    << <<" ", "v", "o", "r">>, <<" ", "u", "n", "t", "e", "r">>,
       <<" ", "b", "e", "i">>, <<" ", "a", "l", "t">>,
       <<" ", "a", "b", "g", "e", "b", "r", "o", "c", "h", "e", "n">>,
       <<" ", "i", "n", "n", "e", "r", "h", "a", "l", "b">> >>
MarktplatzTheilVon ==
    <<"M", "a", "r", "k", "t", "p", "l", "a", "t", "z", " ",
      "T", "h", "e", "i", "l", " ", "v", "o", "n">>

\* The first alternative that matches s after i characters, 0 when none does.
FirstAlt(s, i, alternatives) ==
    IF \E a \in DOMAIN alternatives : MatchAt(s, i, alternatives[a])
    THEN CHOOSE a \in DOMAIN alternatives :
            /\ MatchAt(s, i, alternatives[a])
            /\ \A b \in 1 .. a - 1 : ~MatchAt(s, i, alternatives[b])
    ELSE 0

\* street_match (lines 87-88): [a-zA-Zäöü\.\-\s]* takes the longest run of
\* its class and gives back what follows the last letter of the run.  The
\* length of the match, 0 when the title does not match.
RECURSIVE StreetRun(_, _)
StreetRun(s, k) ==
    IF k < Len(s) /\ StreetChar(s[k + 1]) THEN StreetRun(s, k + 1) ELSE k
RECURSIVE LastLetter(_, _)
LastLetter(s, k) ==
    IF k = 0 THEN 0 ELSE IF Letter(s[k]) THEN k ELSE LastLetter(s, k - 1)
StreetMatch(address) == LastLetter(address, StreetRun(address, 0))

\* The street group of partof_match (lines 92-96) is greedy: it ends with
\* the last letter at or before position i that a marker follows, the rest
\* being one line.  0: no match.
RECURSIVE PartOfStreet(_, _)
PartOfStreet(street, i) ==
    IF i < 1 THEN 0
    ELSE IF /\ i <= StreetRun(street, 0)
            /\ Letter(street[i])
            /\ FirstAlt(street, i, StreetMarkers) # 0
            /\ RestOfLine(street, i)
    THEN i
    ELSE PartOfStreet(street, i - 1)

\* street_match.group('street') of a title without a leading letter.
AttributeError == "AttributeError"

\* Lines 97-101 for the street of street_match and the length of the street
\* group of partof_match.
PartOfCorrection(street, cut) ==
    IF cut = 0 THEN street
    ELSE IF MatchAt(SubSeq(street, 1, cut), 0, MarktplatzTheilVon)
    THEN SubSeq(MarktplatzTheilVon, 1, 10)
    ELSE SubSeq(street, 1, cut)

\* Lines 105-109.
SpecialCorrection(street) ==
    IF \E i \in 0 .. Len(street) : FirstAlt(street, i, SpecialWords) # 0
    THEN FirstWord(street)
    ELSE street

\* The street of a title (lines 86-112).
StreetOf(address) ==
    LET PartOf(street) ==
            PartOfCorrection(street, PartOfStreet(street, Len(street)))
    IN IF StreetMatch(address) = 0 THEN AttributeError
       ELSE SpecialCorrection(PartOf(SubSeq(address, 1, StreetMatch(address))))

\* street_postfix (lines 115, 196).
StreetPostfix(address, street) == LStrip(ReplaceFirst(address, street))

\* ((, )|( ?/ ))? of line 119 after the first k characters: its end.
Separator119(s, k) ==
    IF MatchAt(s, k, <<",", " ">>) THEN k + 2
    ELSE IF MatchAt(s, k, <<" ", "/", " ">>) THEN k + 3
    ELSE IF MatchAt(s, k, <<"/", " ">>) THEN k + 2
    ELSE k

\* ( ?[a-z])? of line 120 after the first d characters: its end.
LowerSuffix(s, d) ==
    IF d + 2 <= Len(s) /\ s[d + 1] = " " /\ s[d + 2] \in Lower THEN d + 2
    ELSE IF d + 1 <= Len(s) /\ s[d + 1] \in Lower THEN d + 1
    ELSE d

\* numbers_match of line 119: the whole remainder, up to "$", is a list of
\* numbers.  No part of a number can be read in two ways, so a number is
\* read at once: its separator, all its digits, and its letter.
RECURSIVE NumbersFrom(_, _)
NumbersFrom(s, k) ==
    LET p == Separator119(s, k)
        d == DigitRun(s, p)
        e == LowerSuffix(s, d)
    IN d > p /\ (e = Len(s) \/ e = LineEnd(s) \/ NumbersFrom(s, e))
NumbersMatch(street_postfix) == NumbersFrom(street_postfix, 0)

\* numbers.replace(' ', '')
NoBlanks(s) == LET Test(c) == c # " " IN SelectSeq(s, Test)

\* The cell written for the group numbers (lines 124-130, 161-167).
NumbersCell(numbers) ==
    IF Find(numbers, <<",">>, 0) # -1
    THEN List(Split(numbers, <<",", " ">>))
    ELSE IF Find(numbers, <<"/">>, 0) # -1
    THEN List(Split(NoBlanks(numbers), <<"/">>))
    ELSE Text(numbers)

\* The ends of the part-of marker and of the optional "von " or "v. "
\* behind it, for a marker that matches s after i characters, in the order
\* the alternatives are tried.
OfEnds(s, p) ==
    (IF MatchAt(s, p, OfWords[1]) THEN <<p + 4>> ELSE <<>>)
      \o (IF MatchAt(s, p, OfWords[2]) THEN <<p + 3>> ELSE <<>>)
      \o <<p>>
RECURSIVE Heads(_, _, _)
Heads(s, i, m) ==
    IF m > Len(Markers) THEN <<>>
    ELSE (IF MatchAt(s, i, Markers[m])
          THEN OfEnds(s, i + Len(Markers[m])) ELSE <<>>)
           \o Heads(s, i, m + 1)

\* partof_match of line 134: the group postfix, None when the remainder does
\* not start with a marker and a blank, or is more than one line.
PartOfPostfix(street_postfix) ==
    IF \/ Heads(street_postfix, 0, 1) = <<>>
       \/ ~RestOfLine(street_postfix, Heads(street_postfix, 0, 1)[1])
    THEN None
    ELSE Text(SubSeq(street_postfix, Heads(street_postfix, 0, 1)[1] + 1,
                     LineEnd(street_postfix)))

\* (( ?[a-zA-Z] )|( ?[a-zA-Z]$))? of line 139 after the first d characters:
\* its end.
LetterSuffix(s, d) ==
    LET AZ(k) == k <= Len(s) /\ s[k] \in Lower \cup Upper
        Blank(k) == k <= Len(s) /\ s[k] = " "
        End(k) == k = Len(s) \/ k = LineEnd(s)
    IN IF Blank(d + 1) /\ AZ(d + 2) /\ Blank(d + 3) THEN d + 3
       ELSE IF AZ(d + 1) /\ Blank(d + 2) THEN d + 2
       ELSE IF Blank(d + 1) /\ AZ(d + 2) /\ End(d + 2) THEN d + 2
       ELSE IF AZ(d + 1) /\ End(d + 1) THEN d + 1
       ELSE d

\* One number of the group numbers of lines 138-139 after the first k
\* characters: ((, )|( / ))?, digits, the letter.  Its end, 0 when no number
\* is there.
Number138(s, k) ==
    LET p == IF MatchAt(s, k, <<",", " ">>)
                  /\ DigitRun(s, k + 2) > k + 2 THEN k + 2
             ELSE IF MatchAt(s, k, <<" ", "/", " ">>)
                  /\ DigitRun(s, k + 3) > k + 3 THEN k + 3
             ELSE k
    IN IF DigitRun(s, p) > p THEN LetterSuffix(s, DigitRun(s, p)) ELSE 0

\* The end of the group numbers of lines 138-139: the numbers are taken as
\* long as one follows, and the group postfix takes the rest, of one line.
\* 0: no match.
RECURSIVE NumberRun(_, _)
NumberRun(s, k) ==
    IF Number138(s, k) # 0 THEN NumberRun(s, Number138(s, k))
    ELSE IF RestOfLine(s, k) THEN k
    ELSE 0

\* ((, )?[0-9]+)+$ of line 153 from offset k on.
RECURSIVE CommaNumbers(_, _)
CommaNumbers(s, k) ==
    LET p == IF MatchAt(s, k, <<",", " ">>) THEN k + 2 ELSE k
        d == DigitRun(s, p)
    IN d > p /\ (d = Len(s) \/ d = LineEnd(s) \/ CommaNumbers(s, d))

\* postfix_match of line 152: the length of its group postfix, which is
\* greedy and of one line, from k downwards.  -1: no match.
RECURSIVE PostfixMatch(_, _)
PostfixMatch(postfix, k) ==
    IF k < 0 THEN -1
    ELSE IF /\ FirstAlt(postfix, k, AndWords) # 0
            /\ CommaNumbers(postfix,
                            k + Len(AndWords[FirstAlt(postfix, k, AndWords)]))
            /\ \A j \in 1 .. k : postfix[j] # "\n"
    THEN k
    ELSE PostfixMatch(postfix, k - 1)

\* The last comma of s at or before position k, 0 when there is none.
RECURSIVE LastComma(_, _)
LastComma(s, k) ==
    IF k = 0 THEN 0 ELSE IF s[k] = "," THEN k ELSE LastComma(s, k - 1)

\* numbers.rpartition(',') for the last comma at position c: without one
\* the string is the part behind it.
RPartition(numbers, c) ==
    [numbers |-> SubSeq(numbers, 1, c - 1),
     to_postfix |-> SubSeq(numbers, c + 1, Len(numbers))]

\* Lines 147-149: a last number that a period or a word character follows
\* goes to the postfix.
WrongNumbers(numbers, postfix) ==
    IF postfix # <<>> /\ PeriodOrWord(postfix[1])
    THEN [numbers |-> RPartition(numbers, LastComma(numbers, Len(numbers))).numbers,
          postfix |-> <<",">>
                        \o RPartition(numbers,
                                      LastComma(numbers, Len(numbers))).to_postfix
                        \o postfix]
    ELSE [numbers |-> numbers, postfix |-> postfix]

\* Lines 152-158 for postfix_match with a group postfix of k characters: the
\* numbers at the end of the postfix are added to the numbers.
NumbersAtEnd(numbers, postfix, k) ==
    IF k = -1 THEN [numbers |-> numbers, postfix |-> postfix]
    ELSE [numbers |-> numbers \o <<",", " ">>
                        \o SubSeq(postfix,
                                  k + Len(AndWords[FirstAlt(postfix, k, AndWords)]) + 1,
                                  LineEnd(postfix)),
          postfix |-> SubSeq(postfix, 1, k)]

\* Lines 143-168 for numbers_match with a group numbers of n characters.
NumbersAndPostfix(p, n) ==
    LET corrected == WrongNumbers(SubSeq(p, 1, n),
                                  SubSeq(p, n + 1, LineEnd(p)))
        StoreNumbers(m) == [numbers |-> NumbersCell(m.numbers),
                            postfix |-> Text(m.postfix)]
        Additional(m) ==
            StoreNumbers(NumbersAtEnd(m.numbers, m.postfix,
                                      PostfixMatch(m.postfix, Len(m.postfix))))
    IN Additional(corrected)

\* The numbers of a part-of title (lines 138-168); numbers None and postfix
\* None when no number follows the marker.
PartOfNumbers(p) ==
    IF NumberRun(p, 0) = 0 THEN [numbers |-> None, postfix |-> None]
    ELSE NumbersAndPostfix(p, NumberRun(p, 0))

\* Lines 114-171 for a title with its street.
ParseNumbers(street, street_postfix) ==
    IF NumbersMatch(street_postfix)
    THEN [street |-> Text(street),
          numbers |-> NumbersCell(SubSeq(street_postfix, 1,
                                         LineEnd(street_postfix))),
          postfix |-> None]
    ELSE IF ~isna(PartOfPostfix(street_postfix))
    THEN [f \in {"street", "numbers", "postfix"} |->
            IF f = "street" THEN Text(street)
            ELSE PartOfNumbers(PartOfPostfix(street_postfix).v)[f]]
    ELSE [street |-> Text(street), numbers |-> None,
          postfix |-> Text(street_postfix)]

\* One pass of the loop of lines 83-171 for a title with a leading letter.
Parse(address) ==
    LET WithStreet(street) ==
            ParseNumbers(street, StreetPostfix(address, street))
    IN WithStreet(StreetOf(address))

\* `partof in d[1]['numbers']`: an element of a list, a part of a string.
InNumbers(partof, numbers) ==
    IF numbers.k = "list" THEN InSeq(partof, numbers.v)
    ELSE Find(numbers.v, partof, 0) # -1

\* The three patterns of lines 257-284 on a remainder: the part-of number
\* and the postfix written, None where nothing is written.
NoPartOf == [partof |-> <<>>, postfix |-> None, found |-> FALSE]

\* "Theil von 20 neben 18..." (lines 257-261): the first way to read the
\* marker after which a number, "neben" or "n." and a number follow, and the
\* rest of one line.
RECURSIVE NextToMatchFrom(_, _)
NextToMatchFrom(q, heads) ==
    IF heads = <<>> THEN NoPartOf
    ELSE LET d == DigitRun(q, heads[1])
             a == FirstAlt(q, d, NextToWords)
             p == d + Len(NextToWords[a])
         IN IF /\ d > heads[1] /\ a # 0 /\ DigitRun(q, p) > p
               /\ RestOfLine(q, DigitRun(q, p))
            THEN [partof |-> SubSeq(q, heads[1] + 1, d), found |-> TRUE,
                  postfix |-> Text(SubSeq(q, DigitRun(q, p) + 1, LineEnd(q)))]
            ELSE NextToMatchFrom(q, Tail(heads))
NextToMatch(q) == NextToMatchFrom(q, Heads(q, 0, 1))

\* "Theil von 20..." (lines 269-272): the number may end with "a".
RECURSIVE TheilMatchFrom(_, _)
TheilMatchFrom(q, heads) ==
    IF heads = <<>> THEN NoPartOf
    ELSE LET d == DigitRun(q, heads[1])
             e == IF d < Len(q) /\ q[d + 1] = "a" THEN d + 1 ELSE d
         IN IF d > heads[1] /\ RestOfLine(q, e)
            THEN [partof |-> SubSeq(q, heads[1] + 1, e), found |-> TRUE,
                  postfix |-> Text(SubSeq(q, e + 1, LineEnd(q)))]
            ELSE TheilMatchFrom(q, Tail(heads))
TheilMatch(q) == TheilMatchFrom(q, Heads(q, 0, 1))

\* "... Theil von 20" anywhere (lines 279-281): the leftmost marker that a
\* number follows, from offset i on.
RECURSIVE TheilSearchFrom(_, _)
TheilSearchFrom(q, heads) ==
    IF heads = <<>> THEN NoPartOf
    ELSE IF DigitRun(q, heads[1]) > heads[1]
    THEN [partof |-> SubSeq(q, heads[1] + 1, DigitRun(q, heads[1])),
          found |-> TRUE, postfix |-> None]
    ELSE TheilSearchFrom(q, Tail(heads))
RECURSIVE TheilSearch(_, _)
TheilSearch(q, i) ==
    IF i >= Len(q) THEN NoPartOf
    ELSE IF TheilSearchFrom(q, Heads(q, i, 1)).found
    THEN TheilSearchFrom(q, Heads(q, i, 1))
    ELSE TheilSearch(q, i + 1)

\* The dossier of the model with the id i is the dossier with the id
\* DossierIds[i] of the database; the ids ascend as their numbers do.
DossierIds ==
    <<"HGB_1_074_074", "HGB_1_074_075", "HGB_1_074_076", "HGB_1_074_077",
      "HGB_1_074_078", "HGB_1_074_079">>
IdText(i) == IF i \in DOMAIN DossierIds THEN DossierIds[i] ELSE ""

\* The part-of numbers written by hand (lines 203-253).
Specific(id, number_partof) == [dossierId |-> id, number_partof |-> number_partof]
SpecificCases ==
    <<Specific("HGB_1_074_075", List(<< <<"8">>, <<"1", "0">> >>)),
      Specific("HGB_1_122_026", List(<< <<"5">>, <<"6">> >>)),
      Specific("HGB_1_136_012", List(<< <<"3">>, <<"5">> >>)),
      Specific("HGB_1_136_013", List(<< <<"3">>, <<"5">> >>)),
      Specific("HGB_1_159_054", List(<< <<"3", "1">>, <<"3", "3">> >>)),
      Specific("HGB_1_229_020", List(<< <<"1", "7">>, <<"2", "1">> >>)),
      Specific("HGB_1_154_027", List(<< <<"2", "1">>, <<"1", "9">> >>)),
      Specific("HGB_1_154_031", List(<< <<"2", "1">>, <<"2", "3">> >>)),
      Specific("HGB_1_154_028", List(<< <<"2", "1">>, <<"1", "9">> >>)),
      Specific("HGB_1_154_032", List(<< <<"2", "1">>, <<"2", "3">> >>)),
      Specific("HGB_1_154_029", List(<< <<"2", "1">>, <<"1", "9">> >>)),
      Specific("HGB_1_147_026", List(<< <<"2", "5">>, <<"2", "3">> >>)),
      Specific("HGB_1_091_056", List(<< <<"2", "9">>, <<"3", "1">> >>)),
      Specific("HGB_1_024_096", Text(<<"1", "0", " ", "A">>)),
      Specific("HGB_1_024_097", Text(<<"1", "0", " ", "B">>)),
      Specific("HGB_1_024_099", Text(<<"1", "0", " ", "D">>)),
      Specific("HGB_1_091_020", Text(<<"6", "1">>))>>

\* One pass of the loop of lines 195-284 for a row with its title.
NumberPartOf(address, row) ==
    LET q == StreetPostfix(address, row.street.v)
        specific == {c \in DOMAIN SpecificCases :
                        SpecificCases[c].dossierId = IdText(row.dossierId)}
        first == NextToMatch(q)
        second == TheilMatch(q)
        third == TheilSearch(q, 0)
    IN IF isna(row.numbers) THEN row
       ELSE IF specific # {}
       THEN [row EXCEPT !.number_partof =
                SpecificCases[CHOOSE c \in specific : TRUE].number_partof]
       ELSE IF first.found /\ InNumbers(first.partof, row.numbers)
       THEN [row EXCEPT !.number_partof = Text(first.partof),
                        !.postfix = first.postfix]
       ELSE IF second.found /\ InNumbers(second.partof, row.numbers)
       THEN [row EXCEPT !.number_partof = Text(second.partof),
                        !.postfix = second.postfix]
       ELSE IF third.found /\ InNumbers(third.partof, row.numbers)
       THEN [row EXCEPT !.number_partof = Text(third.partof)]
       ELSE row

\* for d in dossier.iterrows() (lines 83-171).
ParseTitle ==
    /\ pc = "title"
    /\ LET r == rows[d_i]
           Store(row, parsed) == [row EXCEPT !.street = parsed.street,
                                             !.numbers = parsed.numbers,
                                             !.postfix = parsed.postfix]
       IN IF StreetMatch(dossier[r].title) = 0
          THEN \* street_match is None: line 89 raises AttributeError.
               /\ pc' = "crashed"
               /\ UNCHANGED <<dossier, d_i>>
          ELSE /\ dossier' = [dossier EXCEPT
                                 ![r] = Store(@, Parse(dossier[r].title))]
               /\ d_i' = IF d_i = Len(rows) THEN 1 ELSE d_i + 1
               /\ pc' = IF d_i = Len(rows) THEN "correction" ELSE pc
    /\ UNCHANGED <<rows, relation, relation_red, street_i, numbers_done,
                   n_correction, corr_i, lut_cluster, dossier_type, entry,
                   groups_done, closure>>

\* 'Korrektur Nummer' of a row of dossier_correction: "-", "18, 20".
NumberCorrections == {<<"-">>, <<"1", "8", ",", " ", "2", "0">>}

\* The cell written for a number of a correction table (lines 185-191,
\* 309-315).
CorrectionCell(number_correction) ==
    IF Find(number_correction, <<",", " ">>, 0) # -1
    THEN List(Split(number_correction, <<",", " ">>))
    ELSE Text(number_correction)

\* The cell written for a correction of the first table (lines 182-191).
CorrectedNumbers(number_correction) ==
    IF number_correction = <<"-">> THEN None
    ELSE CorrectionCell(number_correction)

\* One row of dossier_correction (lines 177-191); after the last one the
\* column number_partof is created (line 194).
HouseNumberCorrection(dossierid_correction, number_correction) ==
    /\ pc = "correction"
    /\ corr_i' = IF corr_i + 1 = n_correction THEN 0 ELSE corr_i + 1
    /\ IF RowsOfId(dossierid_correction) = <<>>
       THEN \* index.values[0] raises IndexError.
            /\ pc' = "crashed"
            /\ dossier' = dossier
       ELSE LET dossier_index == RowsOfId(dossierid_correction)[1]
                corrected == [dossier EXCEPT ![dossier_index].numbers =
                                CorrectedNumbers(number_correction)]
            IN IF corr_i + 1 = n_correction
               THEN /\ pc' = "partof"
                    /\ dossier' =
                         [r \in DOMAIN dossier |->
                            [f \in DOMAIN corrected[r] \cup {"number_partof"} |->
                               IF f = "number_partof" THEN None
                               ELSE corrected[r][f]]]
               ELSE /\ pc' = pc
                    /\ dossier' = corrected
    /\ UNCHANGED <<rows, relation, relation_red, street_i, numbers_done,
                   n_correction, d_i, lut_cluster, dossier_type, entry,
                   groups_done, closure>>

\* for d in dossier.iterrows() (lines 195-284); after the last row the
\* column postfix is dropped and note_postprocessing is created (286-289).
PartOfRow ==
    /\ pc = "partof"
    /\ LET r == rows[d_i]
           found == [dossier EXCEPT
                        ![r] = NumberPartOf(dossier[r].title, dossier[r])]
       IN IF d_i = Len(rows)
          THEN dossier' =
                  [x \in DOMAIN dossier |->
                     [f \in (DOMAIN found[x] \ {"postfix"})
                               \cup {"note_postprocessing"} |->
                        IF f = "note_postprocessing" THEN <<>>
                        ELSE found[x][f]]]
          ELSE dossier' = found
    /\ d_i' = IF d_i = Len(rows) THEN 1 ELSE d_i + 1
    /\ pc' = IF d_i = Len(rows) THEN "correction2" ELSE pc
    /\ UNCHANGED <<rows, relation, relation_red, street_i, numbers_done,
                   n_correction, corr_i, lut_cluster, dossier_type, entry,
                   groups_done, closure>>

\* 'House Number' of a row of dossier_correction2: NaN,
\* "no housenumber available", "22".
NoHouseNumber ==
    <<"n", "o", " ", "h", "o", "u", "s", "e", "n", "u", "m", "b", "e", "r",
      " ", "a", "v", "a", "i", "l", "a", "b", "l", "e">>
HouseNumberCells == {None, Text(NoHouseNumber), Text(<<"2", "2">>)}
RemarkCells == {"additional structure", ""}

\* A cell of the parsing as the detection reads it: a string is the string
\* of its characters.
Joined(cell) ==
    IF cell.k = "text" THEN Str(Join(cell.v))
    ELSE IF cell.k = "list"
    THEN List([i \in DOMAIN cell.v |-> Join(cell.v[i])])
    ELSE cell

\* The table of lines 318-323 for a row of the table of line 315.
Detection(row) ==
    LET detected == Row(row.dossierId, Join(row.street.v), Joined(row.numbers),
                        Joined(row.number_partof), row.descriptiveNote)
    IN [f \in DOMAIN row \cup DOMAIN detected |->
          IF f \in {"title", "note_postprocessing"} THEN row[f]
          ELSE detected[f]]

\* One row of dossier_correction2 (lines 294-315); after the last one the
\* relationship detection starts (lines 318-323).  No row of the table has
\* an additional address.
AddressCorrection(dossierid_correction, house_number, remarks) ==
    /\ pc = "correction2"
    /\ UNCHANGED <<rows, relation, relation_red, numbers_done, d_i,
                   lut_cluster, dossier_type, entry, groups_done, closure>>
    /\ IF ~isna(house_number) /\ RowsOfId(dossierid_correction) = <<>>
       THEN \* index.values[0] raises IndexError.
            /\ pc' = "crashed"
            /\ UNCHANGED <<dossier, corr_i, n_correction, street_i>>
       ELSE LET dossier_index == RowsOfId(dossierid_correction)[1]
                corrected ==
                    IF isna(house_number) \/ remarks = "additional structure"
                    THEN dossier
                    ELSE IF house_number.v = NoHouseNumber
                    THEN [dossier EXCEPT
                            ![dossier_index].note_postprocessing =
                                Append(@, "No house number available. ")]
                    ELSE [dossier EXCEPT ![dossier_index].numbers =
                            CorrectionCell(house_number.v)]
            IN IF corr_i + 1 = n_correction
               THEN /\ dossier' = [r \in DOMAIN dossier |->
                                     Detection(corrected[r])]
                    /\ corr_i' = 0
                    /\ n_correction' = 0
                    /\ street_i' = NextStreet(1)'
                    /\ pc' = IF street_i' = 0 THEN "note" ELSE "cluster"
               ELSE /\ dossier' = corrected
                    /\ corr_i' = corr_i + 1
                    /\ UNCHANGED <<pc, n_correction, street_i>>

TitleCorrection ==
    \E dossierid_correction \in 1 .. MaxDossier + 1,
       number_correction \in NumberCorrections :
          HouseNumberCorrection(dossierid_correction, number_correction)

TitleCorrection2 ==
    \E dossierid_correction \in 1 .. MaxDossier + 1,
       house_number \in HouseNumberCells, remarks \in RemarkCells :
          AddressCorrection(dossierid_correction, house_number, remarks)

(***************************************************************************)
(* The whole run for titles of one street and one of another, with one     *)
(* row in each correction table.                                           *)
(***************************************************************************)
Petersgraben == <<"P", "e", "t", "e", "r", "s", "g", "r", "a", "b", "e", "n">>
Eisengasse == <<"E", "i", "s", "e", "n", "g", "a", "s", "s", "e">>
\* "Petersgraben Th. v. 20 neben 18"
Neben18 ==
    Petersgraben \o <<" ", "T", "h", ".", " ", "v", ".", " ", "2", "0", " ",
                      "n", "e", "b", "e", "n", " ", "1", "8">>
\* "Eisengasse Bank vor 26"
BankVor ==
    Eisengasse \o <<" ", "B", "a", "n", "k", " ", "v", "o", "r", " ", "2", "6">>
\* "Petersgraben T. 20": the marker ends the run of the street.
MarkerLast == Petersgraben \o <<" ", "T", ".", " ", "2", "0">>
\* "Eisengasse 20/ 22", "Eisengasse 11a"
SlashTitle == Eisengasse \o <<" ", "2", "0", "/", " ", "2", "2">>
LetterTitle == Eisengasse \o <<" ", "1", "1", "a">>
\* "20": a title without a street.
NumberOnly == <<"2", "0">>
\* "Eisengasse 21" with the no-break space U+00A0 for the blank.
NoBreak == Eisengasse \o <<" ", "2", "1">>
\* "Petersgraben Th. v. 20é": a word character of \w follows the number.
WordAfter ==
    Petersgraben \o <<" ", "T", "h", ".", " ", "v", ".", " ", "2", "0", "é">>

\* "Petersgraben 20", "Petersgraben 20, 22"
OneNumber == Petersgraben \o <<" ", "2", "0">>
TwoNumbers == Petersgraben \o <<" ", "2", "0", ",", " ", "2", "2">>

Titles ==
    {OneNumber, Neben18, TwoNumbers, BankVor,
     MarkerLast, SlashTitle, LetterTitle, NumberOnly, NoBreak, WordAfter}
\* The first dossier has any of the titles, the others one of the first four.
TitlesOf ==
    {title \in [Dossiers -> Titles] :
        \A i \in Dossiers \ {1} :
           title[i] \in {OneNumber, Neben18, TwoNumbers, BankVor}}

InitParse ==
    \E title \in TitlesOf :
       /\ dossier = [i \in Dossiers |->
                       [dossierId |-> i, title |-> title[i],
                        descriptiveNote |-> <<>>, street |-> None,
                        numbers |-> None, postfix |-> None]]
       /\ rows = [i \in 1 .. MaxDossier |-> i]
       /\ relation = <<>>
       /\ relation_red = <<>>
       /\ numbers_done = {}
       /\ street_i = 0
       /\ n_correction = 1
       /\ corr_i = 0
       /\ d_i = 1
       /\ lut_cluster = <<>>
       /\ dossier_type = [i \in Dossiers |->
                            IF i <= 2 THEN "partOf" ELSE "unchanged"]
       /\ entry = RunEntries
       /\ groups_done = {}
       /\ closure = Idle
       /\ pc = "title"

NextParse ==
    \/ ParseTitle
    \/ TitleCorrection
    \/ PartOfRow
    \/ TitleCorrection2
    \/ ClusterNumber
    \/ NoteExtract
    \/ DropDuplicates
    \/ AssignCluster
    \/ MergeType
    \/ DeriveCluster

SpecParse == InitParse /\ [][NextParse]_vars

\* The dossier ids no row of the table has.
AbsentIds ==
    (1 .. MaxDossier + 1) \ {dossier[r].dossierId : r \in Range(rows)}

\* A step that processes a correction row naming an absent dossier.
RowOfAbsent ==
    \/ \E dossierid_correction \in AbsentIds,
          number_correction \in NumberCorrections :
             HouseNumberCorrection(dossierid_correction, number_correction)
    \/ \E dossierid_correction \in AbsentIds,
          house_number \in HouseNumberCells, remarks \in RemarkCells :
             AddressCorrection(dossierid_correction, house_number, remarks)

\* C16: a row of a correction table that names a dossier id absent from the
\* table is skipped: the run goes on and the numbers and the postprocessing
\* notes of all dossiers are as before.
C16_AbsentIdSkipped ==
    [][RowOfAbsent =>
          /\ pc' # "crashed"
          /\ \A r \in DOMAIN dossier :
                dossier'[r].numbers = dossier[r].numbers]_vars

\* The remainder of a title matches neither the list of numbers (line 119)
\* nor the part-of pattern (line 134).
Unparsed(address) ==
    LET street_postfix == StreetPostfix(address, StreetOf(address))
    IN /\ StreetMatch(address) # 0
       /\ ~NumbersMatch(street_postfix)
       /\ isna(PartOfPostfix(street_postfix))

\* C17: at the end of the run a dossier whose title remainder matched
\* neither pattern has no numbers, has the remainder kept, and has a remark
\* in note_postprocessing.
C17_ParseMissFlagged ==
    pc = "done" =>
        \A r \in Range(rows) :
            Unparsed(dossier[r].title) =>
                /\ isna(dossier[r].numbers)
                /\ "postfix" \in DOMAIN dossier[r]
                /\ dossier[r].note_postprocessing # <<>>

\* After the loop over the titles an unparsed title has left the numbers
\* empty and the remainder in the column postfix.
RemainderInPostfix ==
    pc = "correction" =>
        \A r \in Range(rows) :
            Unparsed(dossier[r].title) =>
                isna(dossier[r].numbers)
                /\ dossier[r].postfix
                     = Text(StreetPostfix(dossier[r].title, dossier[r].street.v))

\* The part-of number of the row of "Petersgraben Th. v. 20 neben 18" has
\* been determined from its title: the dossier is none of lines 203-253.
PartOfFound(r) ==
    /\ dossier[r].title = Neben18
    /\ \A c \in DOMAIN SpecificCases :
          SpecificCases[c].dossierId # IdText(dossier[r].dossierId)
    /\ "number_partof" \in DOMAIN dossier[r]
    /\ ~isna(dossier[r].number_partof)

\* The cells of a row as the detection reads them, before line 318 too.
Detected(r) == "outside_match" \in DOMAIN dossier[r]
StreetName(r) ==
    IF Detected(r) THEN dossier[r].street ELSE Join(dossier[r].street.v)
CellOf(r, f) == IF Detected(r) THEN dossier[r][f] ELSE Joined(dossier[r][f])

NextToKept(r) ==
    \/ InSeq("18", CellOf(r, "numbers").v)
    \/ InSeq("18", CellOf(r, "number_partof").v)
    \/ /\ "postfix" \in DOMAIN dossier[r]
       /\ Find(dossier[r].postfix.v, <<"1", "8">>, 0) # -1

\* C18: the title "Petersgraben Th. v. 20 neben 18" yields the street
\* Petersgraben, the part-of number 20, and the next-to number 18 in a
\* column of the row.
C18_NextToRecorded ==
    \A r \in DOMAIN dossier :
        (PartOfFound(r) /\ CellOf(r, "numbers") = Str("20")) =>
            /\ StreetName(r) = "Petersgraben"
            /\ CellOf(r, "number_partof") = Str("20")
            /\ NextToKept(r)

\* Street and part-of number of that title.
StreetAndPartOf ==
    \A r \in DOMAIN dossier :
        (PartOfFound(r) /\ CellOf(r, "numbers") = Str("20")) =>
            /\ StreetName(r) = "Petersgraben"
            /\ CellOf(r, "number_partof") = Str("20")

Noted(r) == InSeq("Relation found on triple. ", dossier[r].note)

\* C19: a dossier has the note of the triple detection, and the relation
\* table has rows of it, only for three dossiers whose notes start with Bis
\* or Seit and one year, two of one kind and one of the other.
C19_NoteOnlyOnSplit ==
    /\ \A r \in DOMAIN dossier :
          Noted(r) =>
             \E b, c \in DOMAIN dossier :
                IsTriple(r, b, c) /\ TripleEdges(r, b, c) # {}
    /\ \A i \in 1 .. Len(relation) :
          Len(relation[i].origin) = 3 =>
             \E a, b, c \in DOMAIN dossier :
                /\ IsTriple(a, b, c) /\ TripleEdges(a, b, c) # {}
                /\ Range(relation[i].origin) = IdsOf({a, b, c})

\* The rows of the triple detection come from such triples.
EdgesOnlyOnSplit ==
    \A i \in 1 .. Len(relation) :
       Len(relation[i].origin) = 3 =>
          \E a, b, c \in DOMAIN dossier :
             /\ IsTriple(a, b, c) /\ TripleEdges(a, b, c) # {}
             /\ Range(relation[i].origin) = IdsOf({a, b, c})

\* The dossiers of the street of r that hold the number n.
Holders(r, n) ==
    {x \in DOMAIN dossier :
        /\ dossier[x].street = dossier[r].street
        /\ InSeq(n, AsList(dossier[x].numbers))}

\* C20: the triple detection acts on the three dossiers of a street that
\* hold one common number, and on nothing else: a dossier with its note
\* holds a number that exactly three dossiers of its street hold, and these
\* are its cluster.
C20_TripleOfOneNumber ==
    \A r \in DOMAIN dossier :
        Noted(r) =>
            \E n \in Range(AsList(dossier[r].numbers)) :
                /\ Cardinality(Holders(r, n)) = 3
                /\ Connected(r) = IdsOf(Holders(r, n))

(***************************************************************************)
(* The combined dossier of a statement without the qualifier.              *)
(***************************************************************************)
\* Another dossier of the street of r holds a list that is an ordered
\* selection of two or more of the numbers.
CombinedFor(r, numbers) ==
    \E x \in DOMAIN dossier \ {r} :
        /\ dossier[x].street = dossier[r].street
        /\ dossier[x].numbers.k = "list"
        /\ Len(dossier[x].numbers.v) > 1
        /\ IsSelectionOf(dossier[x].numbers.v, numbers)

NoRelationNote(following) ==
    IF following THEN "No following relation found. "
    ELSE "No before relation found. "

\* The statement of the direction stands in outside_match of r as it stands
\* in the descriptiveNote.
StatementKept(r, keyword) ==
    LET m == StatementMatch(dossier[r].descriptiveNote, keyword)
        o == StatementMatch(dossier[r].outside_match, keyword)
    IN /\ o.ok
       /\ SubSeq(dossier[r].outside_match, o.start, o.end)
            = SubSeq(dossier[r].descriptiveNote, m.start, m.end)

\* C21: when the statement of a direction has no qualifier "vereinigt" and
\* another dossier of the street holds a list that is an ordered selection
\* of two or more of the captured numbers, the statement is skipped for the
\* direction: it produces no edge, no note "No ... relation found." is
\* appended, and the statement stays in outside_match.
C21_CombinedSkipped ==
    \A r \in DOMAIN dossier : \A following \in BOOLEAN :
        LET keyword == IF following THEN "Nachher siehe" ELSE "Vorher siehe" IN
        ( /\ Extracted(r)
          /\ HasStatement(r, keyword)
          /\ ~IsUnited(r, keyword)
          /\ CombinedFor(r, Captured(r, keyword)) )
        => /\ NoteRows(r, following) = <<>>
           /\ ~InSeq(NoRelationNote(following), dossier[r].note_postprocessing)
           /\ StatementKept(r, keyword)

\* "Vorher siehe 10 und 12." with a dossier that holds [12, 10] and a
\* dossier that alone holds 10: the search has passed the dossier.
C21_Witness ==
    /\ Extracted(1)
    /\ dossier[1].descriptiveNote = Two("Vorher siehe")
    /\ CombinedFor(1, Captured(1, "Vorher siehe"))
    /\ Cardinality(MatchNumber(1, "10")) = 1
    /\ relation = <<>>

(***************************************************************************)
(* Part-of dossiers and the statements of the notes.                       *)
(***************************************************************************)
\* The statement of the direction in the note of r has produced an edge
\* between r and x.
EdgeTo(r, following, x) ==
    \E i \in 1 .. Len(NoteRows(r, following)) :
        OtherEnd(NoteRows(r, following)[i], following) = dossier[x].dossierId

\* C22: the other endpoint of an edge that the note of a dossier produced
\* is never a dossier with a part-of number, with and without the qualifier
\* "vereinigt" and in both directions; and the part-of dossiers do not count
\* when the match is tested for uniqueness: a number (or united set of
\* numbers) held by exactly one dossier without a part-of number leads to
\* the edge to that dossier, however many part-of dossiers hold it as well.
C22_NoPartOfSibling ==
    \A r \in DOMAIN dossier : \A following \in BOOLEAN :
        LET keyword == IF following THEN "Nachher siehe" ELSE "Vorher siehe"
            numbers == Captured(r, keyword)
        IN Extracted(r) =>
           /\ \A i \in 1 .. Len(NoteRows(r, following)) :
                 \A x \in DOMAIN dossier :
                    dossier[x].dossierId = OtherEnd(NoteRows(r, following)[i], following)
                       => isna(dossier[x].number_partof)
           /\ (HasStatement(r, keyword) /\ IsUnited(r, keyword)) =>
                 \A x \in MatchUnited(r, numbers) :
                    MatchUnited(r, numbers) = {x} => EdgeTo(r, following, x)
           /\ ( /\ HasStatement(r, keyword) /\ ~IsUnited(r, keyword)
                /\ ~CombinedFor(r, numbers) ) =>
                 \A i \in 1 .. Len(numbers) : \A x \in MatchNumber(r, numbers[i]) :
                    MatchNumber(r, numbers[i]) = {x} => EdgeTo(r, following, x)

\* "Vorher siehe 10, 12 vereinigt." with two dossiers that hold [12, 10],
\* one of them with a part-of number: the edge comes from the other one.
C22_Witness ==
    /\ Extracted(1)
    /\ dossier[1].descriptiveNote = United("Vorher siehe")
    /\ \E x, y \in DOMAIN dossier \ {1} :
          /\ dossier[x].numbers = List(<<"12", "10">>)
          /\ dossier[y].numbers = List(<<"12", "10">>)
          /\ dossier[x].street = dossier[1].street
          /\ dossier[y].street = dossier[1].street
          /\ ~isna(dossier[x].number_partof)
          /\ isna(dossier[y].number_partof)
          /\ Len(relation) = 1
          /\ EdgeTo(1, FALSE, y)

(***************************************************************************)
(* The remainder of the note after the search for statements.              *)
(***************************************************************************)
Flagged(r) ==
    InSeq("Not (all) content of descriptiveNote automatically processed. ",
          dossier[r].note_postprocessing)

\* Row r has a note and no house number with a letter, and the search has
\* passed it.
Searched(r) ==
    /\ Extracted(r)
    /\ dossier[r].descriptiveNote # <<>>
    /\ ~LetterInNumbers(dossier[r].numbers)

\* The remainder is empty and the dossier is not flagged, or the remainder
\* holds more than the allowed words and the dossier is flagged.
ClearedOrFlagged(r) ==
    \/ dossier[r].outside_match = <<>> /\ ~Flagged(r)
    \/ /\ dossier[r].outside_match # <<>>
       /\ ~Boilerplate(dossier[r].outside_match, 1)
       /\ Flagged(r)

\* C23: after the search in both directions on a dossier with a note and
\* without a letter in its house numbers, a remainder of only the allowed
\* words (Bis, Seit, ganz, vereinigt, getrennt, years, punctuation) is
\* cleared and the dossier is not flagged, any other remainder is flagged;
\* whether or not a relation was found for the dossier.
C23_BoilerplateCleared ==
    \A r \in DOMAIN dossier : Searched(r) => ClearedOrFlagged(r)

\* The same for the dossiers whose column `note` is not empty.
ClearedWhenNoted ==
    \A r \in DOMAIN dossier :
        (Searched(r) /\ dossier[r].note # <<>>) => ClearedOrFlagged(r)

(***************************************************************************)
(* Equal median years in a cluster of three.                               *)
(***************************************************************************)
\* The group has the types of one of the two patterns of the derivation.
Eligible(group) ==
    /\ Cardinality(group) = 3
    /\ \/ /\ Cardinality(TypedAs(group, "partOf")) = 2
          /\ Cardinality(TypedAs(group, "unchanged")) = 1
       \/ /\ Cardinality(TypedAs(group, "unchanged")) = 2
          /\ Cardinality(TypedAs(group, "joined")) = 1

\* C24: in a cluster of three dossiers with the types of the derivation, no
\* relation is derived when any two of the three dossiers have the same
\* median year of their entries.
C24_NoRelationOnTie ==
    pc = "done" =>
        \A name \in GroupKeys(dossier, rows) :
            LET group == GroupOf(name) IN
            ( /\ Eligible(group)
              /\ \E x, y \in group : x # y /\ Median(x) = Median(y) )
            => DerivedPairs \cap IdPairs(group) = {}

(***************************************************************************)
(* Clusters with a dossier that the table of the types does not hold: one  *)
(* dossier more than in the other families, all in one street, the last    *)
(* one at number 10 with the others or alone at number 12.                 *)
(***************************************************************************)
Members == 1 .. MaxDossier + 1
MemberTyped ==
    {TypeYears("partOf", <<1700>>), TypeYears("unchanged", <<1702>>),
     TypeYears("unchanged", <<1698>>), TypeYears("", <<>>)}

InitUntyped ==
    \E t \in [Members -> MemberTyped], last \in {Str("10"), Str("12")} :
       Start([i \in Members |->
                Row(i, "Eisengasse",
                    IF i = MaxDossier + 1 THEN last ELSE Str("10"), None, <<>>)],
             0, [i \in Members |-> t[i].type], [i \in Members |-> t[i].years])

SpecUntyped == InitUntyped /\ [][NextDetect]_vars

\* C25: the derivation from the types and the median years appends edges
\* only between dossiers of a cluster whose connected_dossier (cluster_size)
\* has exactly three members, also when the table of the types does not
\* hold every member of a cluster.
C25_OnlyClustersOfThree ==
    pc = "done" =>
        \A e \in DerivedPairs : \A x \in DOMAIN dossier :
            dossier[x].dossierId \in {e.source_dossierid, e.target_dossierid}
                => dossier[x].cluster_size = 3

\* The same for the runs in which every member of a cluster has a type.
OnlyClustersOfThreeTyped ==
    (pc = "done" /\ \A x \in DOMAIN dossier :
                       dossier[x].cluster_size > 0 => dossier[x].type # "")
    => \A e \in DerivedPairs : \A x \in DOMAIN dossier :
          dossier[x].dossierId \in {e.source_dossierid, e.target_dossierid}
             => dossier[x].cluster_size = 3

(***************************************************************************)
(* Statements whose numbers have no dossier or several.                    *)
(***************************************************************************)
\* C26: when the note of a dossier holds a statement of a direction and the
\* united numbers, or one of the captured numbers, are held by no other
\* dossier of the street or by several, the run goes on, the statement
\* produces no edge for the united numbers or for that number, and the
\* dossier has a note in note_postprocessing once the search has passed it.
C26_AmbiguousNoted ==
    \A r \in DOMAIN dossier : \A following \in BOOLEAN :
        LET keyword == IF following THEN "Nachher siehe" ELSE "Vorher siehe"
            numbers == Captured(r, keyword)
        IN (Extracted(r) /\ HasStatement(r, keyword)) =>
           /\ ( /\ IsUnited(r, keyword)
                /\ Cardinality(MatchUnited(r, numbers)) # 1 )
              => /\ pc # "crashed"
                 /\ NoteRows(r, following) = <<>>
                 /\ dossier[r].note_postprocessing # <<>>
           /\ ~IsUnited(r, keyword) =>
                \A i \in 1 .. Len(numbers) :
                   Cardinality(MatchNumber(r, numbers[i])) # 1
                   => /\ pc # "crashed"
                      /\ \A x \in DOMAIN dossier :
                            dossier[x].numbers = Str(numbers[i])
                               => ~EdgeTo(r, following, x)
                      /\ dossier[r].note_postprocessing # <<>>

\* "Nachher siehe 10, 12 vereinigt." with two dossiers that hold [12, 10]:
\* no edge, and the dossier is left to the postprocessing.
C26_Witness ==
    /\ Extracted(1)
    /\ dossier[1].descriptiveNote = United("Nachher siehe")
    /\ Cardinality(MatchUnited(1, Captured(1, "Nachher siehe"))) = 2
    /\ relation = <<>>
    /\ Flagged(1)

(***************************************************************************)
(* Source and target of the edges.                                         *)
(***************************************************************************)
\* C27: no edge has its source as its target, neither in the rows the
\* triple detection and the notes append to `relation` nor in the final
\* table relation_red with the rows of the derivation.
C27_NoSelfLoop ==
    /\ \A i \in 1 .. Len(relation) :
          relation[i].source_dossierid # relation[i].target_dossierid
    /\ \A i \in 1 .. Len(relation_red) :
          relation_red[i].source_dossierid # relation_red[i].target_dossierid

\* A dossier whose note names its own number 10, in a triple with edges of
\* the triple detection and of the derivation.
C27_Witness ==
    /\ pc = "done"
    /\ PairsOfOrigin(3) # {}
    /\ DerivedRows # {}
    /\ \E r \in DOMAIN dossier :
          /\ dossier[r].descriptiveNote = SeitNachher
          /\ dossier[r].numbers = Str("10")
          /\ InSeq("No following relation found. ", dossier[r].note_postprocessing)

\* C28: the final relation table never holds an edge together with its
\* reverse, whichever of the triple detection, the notes of the dossiers and
\* the derivation from the median years produced the edges.
C28_Antisymmetric ==
    \A i, j \in 1 .. Len(relation_red) :
        ~ ( /\ relation_red[i].source_dossierid = relation_red[j].target_dossierid
            /\ relation_red[i].target_dossierid = relation_red[j].source_dossierid )

(***************************************************************************)
(* The clusters as a partition.                                            *)
(***************************************************************************)
\* Any two cells connected_dossier are the same set or have no common id.
EqualOrDisjoint ==
    \A a, b \in DOMAIN dossier :
        Connected(a) = Connected(b) \/ Connected(a) \cap Connected(b) = {}

\* C29: when the streets and the additional addresses are through, every
\* connected_dossier that is not empty holds the id of its own dossier, has
\* two members or more and holds no id twice, and any two of them are equal
\* as sets or disjoint, also when an additional address joined dossiers of
\* two streets.
C29_Partition ==
    pc = "note" =>
        /\ \A a \in DOMAIN dossier :
              Connected(a) # {} =>
                 /\ dossier[a].dossierId \in Connected(a)
                 /\ Cardinality(Connected(a)) >= 2
                 /\ Len(dossier[a].connected_dossier) = Cardinality(Connected(a))
        /\ EqualOrDisjoint

\* The same without the least size of a cluster.
PartitionOfAnySize ==
    pc = "note" =>
        /\ \A a \in DOMAIN dossier :
              Connected(a) # {} =>
                 /\ dossier[a].dossierId \in Connected(a)
                 /\ Len(dossier[a].connected_dossier) = Cardinality(Connected(a))
        /\ EqualOrDisjoint

(***************************************************************************)
(* The triple detection in the loop over the numbers of a street.          *)
(***************************************************************************)
\* How often the note of the triple detection stands in the notes of r.
TripleNotes(r) ==
    Cardinality({i \in 1 .. Len(dossier[r].note) :
                    dossier[r].note[i] = "Relation found on triple. "})

\* The rows of `relation` whose origin are the three ids.
RowsOfTriple(ids) ==
    {i \in 1 .. Len(relation) :
        Len(relation[i].origin) = 3 /\ Range(relation[i].origin) = ids}

\* C30: a dossier of a triple has the note "Relation found on triple." once,
\* and `relation` holds the two edges of a triple once, also when the three
\* dossiers are connected by more than one house number.
C30_TripleOnce ==
    /\ \A r \in DOMAIN dossier : TripleNotes(r) <= 1
    /\ \A i \in 1 .. Len(relation) :
          Len(relation[i].origin) = 3 =>
             Cardinality(RowsOfTriple(Range(relation[i].origin))) = 2

\* The same for the triples of dossiers that hold one number only.
TripleOnceOfOneNumber ==
    (\A r \in DOMAIN dossier : dossier[r].numbers.k # "list")
    => /\ \A r \in DOMAIN dossier : TripleNotes(r) <= 1
       /\ \A i \in 1 .. Len(relation) :
             Len(relation[i].origin) = 3 =>
                Cardinality(RowsOfTriple(Range(relation[i].origin))) = 2

==========================================================================
